---------------------------- MODULE Spec2Model ----------------------------
(***************************************************************************)
(* Model of the etabs_text_log pipeline:                                   *)
(*   text --parse_sections_from_text--> blocks                             *)
(*   snapshot --attach_story_and_grid_tags--> tagged snapshot              *)
(*   (old, new) --diff_models--> RawDiff --aggregate_diff--> AggregatedDiff*)
(*   blocks --parse_et_file--> snapshot                                    *)
(* and of EtabsFileWatcher of the MCP server.                              *)
(*                                                                         *)
(* Encoding of Python values.                                              *)
(*   str            a TLA+ string                                          *)
(*   float          [num |-> n], n the value in thousandths (fixed point,  *)
(*                  so the tolerance 1e-3 is 1), or NaN                    *)
(*   bool           [bool |-> b]                                           *)
(*   None           the record None                                        *)
(*   Optional[str]  None or [str |-> s]                                    *)
(*   Optional[Tuple[str,str]]   None or [pair |-> <<a, b>>]                *)
(*   dataclass      a record with the dataclass' fields                    *)
(*   list           a sequence                                             *)
(*   dict           a sequence of entries [k |-> key, v |-> value] with    *)
(*                  distinct keys, in insertion order (Python dicts        *)
(*                  iterate in insertion order)                            *)
(***************************************************************************)
EXTENDS Integers, Sequences, FiniteSets

VARIABLES
    old,          \* the older snapshot (EtabsModel)
    new,          \* the newer snapshot (EtabsModel)
    pc,           \* position of the pipeline / of the segmenter
    tagCount,     \* [old |-> n, new |-> n]: tagging passes run on each snapshot
    raw,          \* RawDiff returned by diff_models(old, new), or None
    agg,          \* AggregatedDiff returned by aggregate_diff, or None
    text,         \* segmenter input: a sequence of characters
    cursor,       \* segmenter: index of the next line of text.splitlines()
    sections,     \* segmenter: the dict being built
    current_section,  \* segmenter: None or [str |-> name]
    current_lines,    \* segmenter: lines collected for current_section
    blocks,           \* [old |-> d, new |-> d]: the dicts parse_et_file gets
                      \* from parse_sections_from_text for the two files
    file_changes,     \* EtabsFileWatcher.file_changes, oldest record first
    last_file,        \* EtabsFileWatcher.last_file
    clock,            \* time.time(), as the number of records made so far
    last_two,         \* what the last call of get_last_two_files returned
    recorded,         \* the paths record_file_change was called with, in order
    geom              \* classification of one frame: the values computed by
                      \* classify_frame_object and the object_type it sets

vars == <<old, new, pc, tagCount, raw, agg,
          text, cursor, sections, current_section, current_lines, blocks,
          file_changes, last_file, clock, last_two, recorded, geom>>

pipeVars == <<old, new, tagCount, raw, agg>>
segVars == <<text, cursor, sections, current_section, current_lines>>
geoVars == <<geom>>
parseVars == <<blocks>>
watchVars == <<file_changes, last_file, clock, last_two, recorded>>

-----------------------------------------------------------------------------
(* Python values *)

None == [none |-> TRUE]
NaN == [nan |-> TRUE]
Num(n) == [num |-> n]
Bool(b) == [bool |-> b]
Str(s) == [str |-> s]
Pair(a, b) == [pair |-> <<a, b>>]

IsNone(v) == "none" \in DOMAIN v
IsNaN(v) == "nan" \in DOMAIN v

\* Python truthiness of an Optional[str]: None and "" are falsy.
Truthy(v) == ~IsNone(v) /\ v.str # ""

\* a or b, for Optional[str] operands
OrElse(a, b) == IF Truthy(a) THEN a ELSE b

-----------------------------------------------------------------------------
(* dicts as insertion-ordered sequences of entries *)

Keys(d) == {d[i].k : i \in DOMAIN d}
Has(d, key) == \E i \in DOMAIN d : d[i].k = key
\* d[key], for a key of d
Get(d, key) == d[CHOOSE i \in DOMAIN d : d[i].k = key].v
\* d.get(key): the value or None
GetOrNone(d, key) == IF Has(d, key) THEN Get(d, key) ELSE None
\* list(d.values())
Values(d) == [i \in DOMAIN d |-> d[i].v]
\* d[key] = value: an existing key keeps its position, a new key is appended
Put(d, key, value) ==
    IF Has(d, key)
    THEN [i \in DOMAIN d |-> IF d[i].k = key THEN [k |-> key, v |-> value] ELSE d[i]]
    ELSE Append(d, [k |-> key, v |-> value])

-----------------------------------------------------------------------------
(* float arithmetic on [num |-> n] / NaN; inf is float('inf') *)

Inf == [inf |-> TRUE]
Abs(n) == IF n < 0 THEN -n ELSE n

\* abs(a - b)
AbsDiff(a, b) == IF IsNaN(a) \/ IsNaN(b) THEN NaN ELSE Num(Abs(a.num - b.num))

\* a < b and a <= b; every comparison with NaN is False
FLt(a, b) ==
    /\ ~IsNaN(a) /\ ~IsNaN(b)
    /\ "inf" \notin DOMAIN a
    /\ ("inf" \in DOMAIN b \/ a.num < b.num)
FLe(a, b) ==
    /\ ~IsNaN(a) /\ ~IsNaN(b)
    /\ ("inf" \in DOMAIN b \/ ("inf" \notin DOMAIN a /\ a.num <= b.num))

\* a != b on floats: NaN differs from everything, itself included
FNe(a, b) == IsNaN(a) \/ IsNaN(b) \/ a # b

(* Exact products of coordinates, which exceed TLC's 32-bit integers: a    *)
(* natural number w is kept as <<hi, lo>>, w = hi * 10^6 + lo, lo < 10^6;  *)
(* coordinates are below 10^6 thousandths.                                 *)
WNorm(hi, lo) == <<hi + (lo \div 1000000), lo % 1000000>>
WSq(a) ==
    LET h == a \div 1000
        l == a % 1000
    IN WNorm(h * h, 2000 * h * l + l * l)
WAdd(v, w) == WNorm(v[1] + w[1], v[2] + w[2])
WScale(c, w) == WNorm(c * w[1], c * w[2])
WLess(v, w) == v[1] < w[1] \/ (v[1] = w[1] /\ v[2] < w[2])

-----------------------------------------------------------------------------
(* location.py *)

\* attach_story_and_grid_tags(model, *, coord_tol = 1e-3), in thousandths
coord_tol == 1

RECURSIVE StoryScan(_, _, _)
\* the loop of _find_story_by_elevation over the first n stories:
\* [best |-> best_match, diff |-> min_diff]
StoryScan(z, stories, n) ==
    IF n = 0 THEN [best |-> None, diff |-> Inf]
    ELSE LET acc == StoryScan(z, stories, n - 1)
             d == AbsDiff(z, stories[n].v.elevation)
         IN IF FLt(d, acc.diff)
            THEN [best |-> Str(stories[n].k), diff |-> d]
            ELSE acc

\* both branches of the final test return best_match
_find_story_by_elevation(z, model, tol) ==
    StoryScan(z, model.stories, Len(model.stories)).best

RECURSIVE GridScan(_, _, _, _)
\* the loop of _find_grid_line over the first n grid lines
GridScan(coord, grids, direction, n) ==
    IF n = 0 THEN [best |-> None, diff |-> Inf]
    ELSE LET acc == GridScan(coord, grids, direction, n - 1)
             d == AbsDiff(coord, grids[n].coord)
         IN IF grids[n].direction = direction /\ FLt(d, acc.diff)
            THEN [best |-> Str(grids[n].name), diff |-> d]
            ELSE acc

\* the nearest grid line of the direction, however far it is
_find_grid_line_any_distance(coord, model, direction, tol) ==
    GridScan(coord, model.grids, direction, Len(model.grids)).best

_find_grid_line(coord, model, direction, tol) ==
    LET r == GridScan(coord, model.grids, direction, Len(model.grids))
    IN IF Truthy(r.best) /\ FLe(r.diff, Num(tol)) THEN r.best ELSE None

_tag_joint_location(joint, model, tol) ==
    [joint EXCEPT
        !.story = _find_story_by_elevation(joint.z, model, tol),
        !.grid_x = _find_grid_line(joint.x, model, "X", tol),
        !.grid_y = _find_grid_line(joint.y, model, "Y", tol)]

\* the story of the first joint whenever both joints have one
FrameStoryOfFirstJoint(story_i, story_j, model, keep) ==
    IF Truthy(story_i) /\ Truthy(story_j) THEN story_i ELSE keep

\* the story a frame gets from its two joints; keep is its present value
FrameStory(story_i, story_j, model, keep) ==
    IF Truthy(story_i) /\ Truthy(story_j)
    THEN IF story_i = story_j THEN story_i
         ELSE LET elev_i == GetOrNone(model.stories, story_i.str)
                  elev_j == GetOrNone(model.stories, story_j.str)
              IN IF ~IsNone(elev_i) /\ ~IsNone(elev_j)
                 THEN IF FLe(elev_i.elevation, elev_j.elevation)
                      THEN story_i ELSE story_j
                 ELSE keep
    ELSE keep

\* the frame's grid tag taken from joint i whatever joint j carries
_tag_frame_location_tag_of_i(frame, model, tol) ==
    LET joint_i == GetOrNone(model.joints, frame.joint_i)
        joint_j == GetOrNone(model.joints, frame.joint_j)
    IN IF IsNone(joint_i) \/ IsNone(joint_j) THEN frame
       ELSE
        LET story_i == joint_i.story
            story_j == joint_j.story
            sameStory == Truthy(story_i) /\ Truthy(story_j) /\ story_i = story_j
            elevs == /\ Truthy(story_i) /\ Truthy(story_j) /\ story_i # story_j
                     /\ Has(model.stories, story_i.str)
                     /\ Has(model.stories, story_j.str)
            newStory == FrameStory(story_i, story_j, model, frame.story)
            grid_x_i == joint_i.grid_x
            grid_x_j == joint_j.grid_x
            grid_y_i == joint_i.grid_y
            grid_y_j == joint_j.grid_y
            loc == frame.location
        IN [frame EXCEPT
             !.story = newStory,
             !.location = [
                story |-> IF sameStory \/ elevs THEN newStory ELSE loc.story,
                grid_x |-> IF Truthy(grid_x_i)
                           THEN grid_x_i ELSE loc.grid_x,
                grid_y |-> IF Truthy(grid_y_i)
                           THEN grid_y_i ELSE loc.grid_y,
                grid_x_span |-> IF Truthy(grid_x_i) /\ Truthy(grid_x_j)
                                   /\ grid_x_i # grid_x_j
                                THEN Pair(grid_x_i.str, grid_x_j.str)
                                ELSE loc.grid_x_span,
                grid_y_span |-> IF Truthy(grid_y_i) /\ Truthy(grid_y_j)
                                   /\ grid_y_i # grid_y_j
                                THEN Pair(grid_y_i.str, grid_y_j.str)
                                ELSE loc.grid_y_span]]

_tag_frame_location(frame, model, tol) ==
    LET joint_i == GetOrNone(model.joints, frame.joint_i)
        joint_j == GetOrNone(model.joints, frame.joint_j)
    IN IF IsNone(joint_i) \/ IsNone(joint_j) THEN frame
       ELSE
        LET story_i == joint_i.story
            story_j == joint_j.story
            sameStory == Truthy(story_i) /\ Truthy(story_j) /\ story_i = story_j
            elevs == /\ Truthy(story_i) /\ Truthy(story_j) /\ story_i # story_j
                     /\ Has(model.stories, story_i.str)
                     /\ Has(model.stories, story_j.str)
            newStory == FrameStory(story_i, story_j, model, frame.story)
            grid_x_i == joint_i.grid_x
            grid_x_j == joint_j.grid_x
            grid_y_i == joint_i.grid_y
            grid_y_j == joint_j.grid_y
            loc == frame.location
        IN [frame EXCEPT
             !.story = newStory,
             !.location = [
                story |-> IF sameStory \/ elevs THEN newStory ELSE loc.story,
                grid_x |-> IF Truthy(grid_x_i) /\ grid_x_i = grid_x_j
                           THEN grid_x_i ELSE loc.grid_x,
                grid_y |-> IF Truthy(grid_y_i) /\ grid_y_i = grid_y_j
                           THEN grid_y_i ELSE loc.grid_y,
                grid_x_span |-> IF Truthy(grid_x_i) /\ Truthy(grid_x_j)
                                   /\ grid_x_i # grid_x_j
                                THEN Pair(grid_x_i.str, grid_x_j.str)
                                ELSE loc.grid_x_span,
                grid_y_span |-> IF Truthy(grid_y_i) /\ Truthy(grid_y_j)
                                   /\ grid_y_i # grid_y_j
                                THEN Pair(grid_y_i.str, grid_y_j.str)
                                ELSE loc.grid_y_span]]

\* pairs <<keyword, section name>> with keyword in name.upper(), over the
\* section names of the model
UpperContains ==
    { <<"COL", "ConcCol24">>, <<"BM", "BM18">>, <<"BRACE", "HSSBrace">>,
      <<"COL", "ColBeam">>, <<"BEAM", "ColBeam">>,
      <<"LINE ASSIGN", "LINE ASSIGNS">>, <<"AREA ASSIGN", "AREA ASSIGNS">> }
KeywordIn(kw, name) == <<kw, name>> \in UpperContains

\* the geometric class with the vertical ratio taken from dx instead of dz
GeometricTypeByX(joint_i, joint_j) ==
    LET dx == AbsDiff(joint_j.x, joint_i.x)
        dy == AbsDiff(joint_j.y, joint_i.y)
        dz == AbsDiff(joint_j.z, joint_i.z)
    IN IF IsNaN(dx) \/ IsNaN(dy) \/ IsNaN(dz) THEN "brace"
       ELSE
        LET x2 == WSq(dx.num)
            y2 == WSq(dy.num)
            z2 == WSq(dz.num)
            len2 == WAdd(x2, WAdd(y2, z2))
            Over07(d2) == WLess(WScale(49, len2), WScale(100, d2))
            Under03(d2) == WLess(WScale(100, d2), WScale(9, len2))
        IN IF len2 = <<0, 0>> THEN "frame"
           ELSE IF Over07(x2) THEN "column"
           ELSE IF Under03(x2) /\ (Over07(z2) \/ Over07(y2)) THEN "beam"
           ELSE "brace"

\* the geometric class of classify_frame_object, from the joint coordinates
GeometricType(joint_i, joint_j) ==
    LET dx == AbsDiff(joint_j.x, joint_i.x)
        dy == AbsDiff(joint_j.y, joint_i.y)
        dz == AbsDiff(joint_j.z, joint_i.z)
    IN IF IsNaN(dx) \/ IsNaN(dy) \/ IsNaN(dz)
       THEN "brace"   \* length and the norms are NaN: every test is False
       ELSE
        LET x2 == WSq(dx.num)
            y2 == WSq(dy.num)
            z2 == WSq(dz.num)
            len2 == WAdd(x2, WAdd(y2, z2))
            \* d / length > 0.7  <=>  100 d^2 > 49 length^2
            Over07(d2) == WLess(WScale(49, len2), WScale(100, d2))
            \* d / length < 0.3  <=>  100 d^2 < 9 length^2
            Under03(d2) == WLess(WScale(100, d2), WScale(9, len2))
        IN IF len2 = <<0, 0>> THEN "frame"     \* length < 1e-6
           ELSE IF Over07(z2) THEN "column"
           ELSE IF Under03(z2) /\ (Over07(x2) \/ Over07(y2)) THEN "beam"
           ELSE "brace"

classify_frame_object(frame, model) ==
    LET joint_i == GetOrNone(model.joints, frame.joint_i)
        joint_j == GetOrNone(model.joints, frame.joint_j)
    IN IF IsNone(joint_i) \/ IsNone(joint_j)
       THEN [frame EXCEPT !.object_type = Str("frame")]
       ELSE
        LET geo == GeometricType(joint_i, joint_j)
            section == GetOrNone(model.frame_sections, frame.section)
            type ==
                IF geo = "frame" \/ IsNone(section) THEN geo
                ELSE IF KeywordIn("COLUMN", section.name) \/ KeywordIn("COL", section.name)
                     THEN "column"
                ELSE IF KeywordIn("BEAM", section.name) \/ KeywordIn("BM", section.name)
                     THEN "beam"
                ELSE IF KeywordIn("BRACE", section.name) THEN "brace"
                ELSE geo
        IN [frame EXCEPT !.object_type = Str(type)]

\* the frames tagged against the joints as they were before this pass
attach_frames_first(model) ==
    LET joints == [i \in DOMAIN model.joints |->
                    [k |-> model.joints[i].k,
                     v |-> _tag_joint_location(model.joints[i].v, model, coord_tol)]]
        frames == [i \in DOMAIN model.frames |->
                    [k |-> model.frames[i].k,
                     v |-> classify_frame_object(
                              _tag_frame_location(model.frames[i].v, model, coord_tol),
                              model)]]
    IN [model EXCEPT !.joints = joints, !.frames = frames]

\* joints first, then frames against the tagged joints
attach_story_and_grid_tags(model) ==
    LET joints == [i \in DOMAIN model.joints |->
                    [k |-> model.joints[i].k,
                     v |-> _tag_joint_location(model.joints[i].v, model, coord_tol)]]
        m1 == [model EXCEPT !.joints = joints]
        frames == [i \in DOMAIN m1.frames |->
                    [k |-> m1.frames[i].k,
                     v |-> classify_frame_object(
                              _tag_frame_location(m1.frames[i].v, m1, coord_tol), m1)]]
    IN [m1 EXCEPT !.frames = frames]

-----------------------------------------------------------------------------
(* diffing.py *)

\* the dataclass fields of each object type, in declaration order (model.py)
Fields(object_type) ==
    CASE object_type = "story" ->
           <<"name", "elevation", "height", "is_master_story", "index">>
      [] object_type = "joint" ->
           <<"name", "x", "y", "z", "story", "grid_x", "grid_y">>
      [] object_type = "frame" ->
           <<"name", "joint_i", "joint_j", "section", "story", "object_type",
             "location", "raw_fields">>
      [] object_type = "material" ->
           <<"name", "type", "E", "Fy", "fc", "density", "raw_fields">>
      [] object_type = "frame_section" ->
           <<"name", "material", "shape_type", "shape_label", "area", "Ix", "Iy",
             "J", "raw_fields">>
      [] object_type = "load_pattern" ->
           <<"name", "load_type", "self_weight_multiplier", "raw_fields">>
      [] object_type = "load_case" ->
           <<"name", "case_type", "pattern", "is_auto", "raw_fields">>
      [] object_type = "load_combo" ->
           <<"name", "design_type", "terms", "raw_fields">>
      [] object_type = "frame_assignment" ->
           <<"frame_name", "story", "section", "propmod_t", "propmod_i22",
             "propmod_i33", "release", "raw_fields">>
      [] object_type = "area_assignment" ->
           <<"area_name", "story", "section", "diaphragm", "raw_fields">>

\* the fields declared float, int or bool: their values are None, [num |-> n],
\* NaN or [bool |-> b]
NumericTyped ==
    {"elevation", "height", "is_master_story", "index", "x", "y", "z", "E", "Fy",
     "fc", "density", "area", "Ix", "Iy", "J", "self_weight_multiplier", "is_auto",
     "propmod_t", "propmod_i22", "propmod_i33"}

\* isinstance(v, (int, float)) for the value v of field
IsNumber(field, v) == field \in NumericTyped /\ ~IsNone(v)

\* a bool is the int 0 or 1
AsFloat(v) == IF "bool" \in DOMAIN v THEN Num(IF v.bool THEN 1000 ELSE 0) ELSE v

\* the default numeric_tol of diff_models, in thousandths
numeric_tol ==
    [elevation |-> 1, coord |-> 1, E |-> 1000000, Fy |-> 100000, fc |-> 10000]

\* numeric_tol.get(field_name, numeric_tol.get("coord", 1e-3))
TolOf(field) ==
    IF field \in DOMAIN numeric_tol THEN numeric_tol[field] ELSE numeric_tol.coord

\* old_val != new_val with the terms of a load combination compared as a set
\* of terms, the factors within the tolerance
ValNeTermsWithinTol(field, old_val, new_val) ==
    IF field = "terms"
    THEN LET near(a, b) ==
                 \A i \in DOMAIN a : \E j \in DOMAIN b :
                     /\ a[i].name = b[j].name
                     /\ FLe(AbsDiff(a[i].factor, b[j].factor), Num(TolOf(field)))
         IN ~(near(old_val, new_val) /\ near(new_val, old_val))
    ELSE IF IsNumber(field, old_val) /\ IsNumber(field, new_val)
    THEN FNe(AsFloat(old_val), AsFloat(new_val))
    ELSE old_val # new_val

\* old_val != new_val
ValNe(field, old_val, new_val) ==
    IF IsNumber(field, old_val) /\ IsNumber(field, new_val)
    THEN FNe(AsFloat(old_val), AsFloat(new_val))
    ELSE old_val # new_val

\* the tolerance test with < in place of <=
FieldDiffersStrict(field, old_val, new_val) ==
    /\ field \notin {"raw_fields", "raw_sections"}
    /\ ValNe(field, old_val, new_val)
    /\ ~ ( /\ IsNumber(field, old_val) /\ IsNumber(field, new_val)
           /\ FLt(AbsDiff(AsFloat(old_val), AsFloat(new_val)), Num(TolOf(field))) )

\* the body of the loop of _compare_objects: does field yield a FieldChange
FieldDiffers(field, old_val, new_val) ==
    /\ field \notin {"raw_fields", "raw_sections"}
    /\ ValNe(field, old_val, new_val)
    /\ ~ ( /\ IsNumber(field, old_val) /\ IsNumber(field, new_val)
           /\ FLe(AbsDiff(AsFloat(old_val), AsFloat(new_val)), Num(TolOf(field))) )

RECURSIVE CompareFields(_, _, _, _)
\* the loop of _compare_objects over the first n fields
CompareFields(old_obj, new_obj, fields, n) ==
    IF n = 0 THEN <<>>
    ELSE LET f == fields[n]
             rest == CompareFields(old_obj, new_obj, fields, n - 1)
         IN IF FieldDiffers(f, old_obj[f], new_obj[f])
            THEN Append(rest, [field |-> f, old |-> old_obj[f], new |-> new_obj[f]])
            ELSE rest

_compare_objects(object_type, old_obj, new_obj) ==
    CompareFields(old_obj, new_obj, Fields(object_type), Len(Fields(object_type)))

\* str(key) of the tuple keys (element name, story) of the assignment dicts
TupleRepr ==
    { << <<"F1", "">>, "('F1', '')" >>,
      << <<"F1", "S1">>, "('F1', 'S1')" >>,
      << <<"F1", "L1">>, "('F1', 'L1')" >>,
      << <<"F2", "L1:W10">>, "('F2', 'L1:W10')" >>,
      << <<"F1", "S2">>, "('F1', 'S2')" >>,
      << <<"F2", "">>, "('F2', '')" >>,
      << <<"F2", "S1">>, "('F2', 'S1')" >>,
      << <<"F2", "S2">>, "('F2', 'S2')" >>,
      << <<"F3", "">>, "('F3', '')" >>,
      << <<"F3", "S1">>, "('F3', 'S1')" >>,
      << <<"F3", "S2">>, "('F3', 'S2')" >>,
      << <<"F4", "">>, "('F4', '')" >>,
      << <<"F4", "S1">>, "('F4', 'S1')" >>,
      << <<"F4", "S2">>, "('F4', 'S2')" >>,
      << <<"F5", "">>, "('F5', '')" >>,
      << <<"F5", "S1">>, "('F5', 'S1')" >>,
      << <<"F5", "S2">>, "('F5', 'S2')" >>,
      << <<"F6", "">>, "('F6', '')" >>,
      << <<"F6", "S1">>, "('F6', 'S1')" >>,
      << <<"F6", "S2">>, "('F6', 'S2')" >>,
      << <<"F7", "">>, "('F7', '')" >>,
      << <<"F7", "S1">>, "('F7', 'S1')" >>,
      << <<"F7", "S2">>, "('F7', 'S2')" >>,
      << <<"F8", "">>, "('F8', '')" >>,
      << <<"F8", "S1">>, "('F8', 'S1')" >>,
      << <<"F8", "S2">>, "('F8', 'S2')" >>,
      << <<"A1", "">>, "('A1', '')" >>,
      << <<"A1", "S1">>, "('A1', 'S1')" >>,
      << <<"A1", "S2">>, "('A1', 'S2')" >>,
      << <<"A2", "">>, "('A2', '')" >>,
      << <<"A2", "S1">>, "('A2', 'S1')" >>,
      << <<"A2", "S2">>, "('A2', 'S2')" >> }
TupleStr(key) == (CHOOSE e \in TupleRepr : e[1] = key)[2]
\* key_str = str(key) if isinstance(key, tuple) else key; the keys of the two
\* assignment dicts are the tuples
KeyStr(object_type, key) ==
    IF object_type \in {"frame_assignment", "area_assignment"}
    THEN TupleStr(key) ELSE key

RECURSIVE AddedScan(_, _, _, _)
\* the loop of _diff_dict_collection over the first n entries of new_dict
AddedScan(object_type, old_dict, new_dict, n) ==
    IF n = 0 THEN <<>>
    ELSE LET e == new_dict[n]
             rest == AddedScan(object_type, old_dict, new_dict, n - 1)
         IN IF ~Has(old_dict, e.k)
            THEN Append(rest, [object_type |-> object_type,
                               key |-> KeyStr(object_type, e.k),
                               new_data |-> e.v])
            ELSE rest

\* every key of new_dict reported, without the test against old_dict
AddedEvery(object_type, old_dict, new_dict) ==
    AddedScan(object_type, <<>>, new_dict, Len(new_dict))

_diff_dict_collection(object_type, old_dict, new_dict) ==
    AddedScan(object_type, old_dict, new_dict, Len(new_dict))

RECURSIVE RemovedScan(_, _, _, _)
\* the loop of _diff_dict_collection_removed over the first n entries of old_dict
RemovedScan(object_type, old_dict, new_dict, n) ==
    IF n = 0 THEN <<>>
    ELSE LET e == old_dict[n]
             rest == RemovedScan(object_type, old_dict, new_dict, n - 1)
         IN IF ~Has(new_dict, e.k)
            THEN Append(rest, [object_type |-> object_type,
                               key |-> KeyStr(object_type, e.k),
                               old_data |-> e.v])
            ELSE rest

\* _diff_dict_collection_removed with the two dicts exchanged
RemovedFromNew(object_type, old_dict, new_dict) ==
    RemovedScan(object_type, new_dict, old_dict, Len(new_dict))

_diff_dict_collection_removed(object_type, old_dict, new_dict) ==
    RemovedScan(object_type, old_dict, new_dict, Len(old_dict))

\* the location of an ObjectModified: new_obj.location for a frame,
\* LocationInfo(story = new_obj.story) for a joint, None without include_location
ModifiedLocation(object_type, new_obj) ==
    IF object_type = "frame" THEN new_obj.location
    ELSE IF object_type = "joint"
    THEN [story |-> new_obj.story, grid_x |-> None, grid_y |-> None,
          grid_x_span |-> None, grid_y_span |-> None]
    ELSE None

RECURSIVE ModifiedScanAlways(_, _, _, _)
\* the loop without the test `if changes`
ModifiedScanAlways(object_type, old_dict, new_dict, n) ==
    IF n = 0 THEN <<>>
    ELSE LET e == old_dict[n]
             rest == ModifiedScanAlways(object_type, old_dict, new_dict, n - 1)
         IN IF ~Has(new_dict, e.k) THEN rest
            ELSE LET new_obj == Get(new_dict, e.k)
                 IN Append(rest, [object_type |-> object_type,
                                  key |-> KeyStr(object_type, e.k),
                                  changes |-> _compare_objects(object_type, e.v, new_obj),
                                  location |-> ModifiedLocation(object_type, new_obj)])

RECURSIVE ModifiedScan(_, _, _, _)
\* the loop of _diff_dict_collection_modified over the first n entries of old_dict
ModifiedScan(object_type, old_dict, new_dict, n) ==
    IF n = 0 THEN <<>>
    ELSE LET e == old_dict[n]
             rest == ModifiedScan(object_type, old_dict, new_dict, n - 1)
         IN IF ~Has(new_dict, e.k) THEN rest
            ELSE LET new_obj == Get(new_dict, e.k)
                     changes == _compare_objects(object_type, e.v, new_obj)
                 IN IF changes # <<>>
                    THEN Append(rest, [object_type |-> object_type,
                                       key |-> KeyStr(object_type, e.k),
                                       changes |-> changes,
                                       location |-> ModifiedLocation(object_type, new_obj)])
                    ELSE rest

_diff_dict_collection_modified(object_type, old_dict, new_dict) ==
    ModifiedScan(object_type, old_dict, new_dict, Len(old_dict))

RECURSIVE NameDict(_, _)
\* the temporary dict {obj.name: obj} built from the first n elements of a list
NameDict(list, n) ==
    IF n = 0 THEN <<>>
    ELSE Put(NameDict(list, n - 1), list[n].name, list[n])

RECURSIVE ListAddedScan(_, _, _, _)
\* the second loop of _diff_list_collection over the first n elements of new_list
ListAddedScan(object_type, old_dict, new_list, n) ==
    IF n = 0 THEN <<>>
    ELSE LET obj == new_list[n]
             rest == ListAddedScan(object_type, old_dict, new_list, n - 1)
         IN IF ~Has(old_dict, obj.name)
            THEN Append(rest, [object_type |-> object_type, key |-> obj.name,
                               new_data |-> obj])
            ELSE rest

_diff_list_collection(object_type, old_list, new_list) ==
    ListAddedScan(object_type, NameDict(old_list, Len(old_list)), new_list,
                  Len(new_list))

_diff_list_collection_removed(object_type, old_list, new_list) ==
    LET old_dict == NameDict(old_list, Len(old_list))
        new_dict == NameDict(new_list, Len(new_list))
    IN RemovedScan(object_type, old_dict, new_dict, Len(old_dict))

SeqToSet(q) == {q[i] : i \in DOMAIN q}

RECURSIVE RawAddedScan(_, _, _)
\* the loop of _diff_raw_sections over the first n entries of new_sections
RawAddedScan(old_sections, new_sections, n) ==
    IF n = 0 THEN <<>>
    ELSE LET e == new_sections[n]
             rest == RawAddedScan(old_sections, new_sections, n - 1)
         IN IF ~Has(old_sections, e.k)
            THEN Append(rest, [object_type |-> "raw_section", key |-> e.k,
                               new_data |-> [lines |-> e.v, line_count |-> Len(e.v)]])
            ELSE rest

_diff_raw_sections(old_sections, new_sections) ==
    RawAddedScan(old_sections, new_sections, Len(new_sections))

RECURSIVE RawRemovedScan(_, _, _)
\* the loop of _diff_raw_sections_removed over the first n entries of old_sections
RawRemovedScan(old_sections, new_sections, n) ==
    IF n = 0 THEN <<>>
    ELSE LET e == old_sections[n]
             rest == RawRemovedScan(old_sections, new_sections, n - 1)
         IN IF ~Has(new_sections, e.k)
            THEN Append(rest, [object_type |-> "raw_section", key |-> e.k,
                               old_data |-> [lines |-> e.v, line_count |-> Len(e.v)]])
            ELSE rest

_diff_raw_sections_removed(old_sections, new_sections) ==
    RawRemovedScan(old_sections, new_sections, Len(old_sections))

\* the changes of one block, with the two blocks compared as lists
RawChangesByList(old_seq, new_seq) ==
    LET old_lines == SeqToSet(old_seq)
        new_lines == SeqToSet(new_seq)
        added_lines == new_lines \ old_lines
        removed_lines == old_lines \ new_lines
    IN IF old_seq = new_seq THEN <<>>
       ELSE (IF added_lines # {}
             THEN <<[field |-> "lines_added", old |-> None, new |-> added_lines]>>
             ELSE <<>>)
            \o (IF removed_lines # {}
                THEN <<[field |-> "lines_removed", old |-> removed_lines, new |-> None]>>
                ELSE <<>>)
            \o (IF Len(old_seq) # Len(new_seq)
                THEN <<[field |-> "line_count", old |-> Len(old_seq), new |-> Len(new_seq)]>>
                ELSE <<>>)

\* the changes of one block present in both snapshots; list(a set) is kept as
\* the set, its order being that of Python's string hashes
RawChanges(old_seq, new_seq) ==
    LET old_lines == SeqToSet(old_seq)
        new_lines == SeqToSet(new_seq)
        added_lines == new_lines \ old_lines
        removed_lines == old_lines \ new_lines
    IN IF old_lines = new_lines THEN <<>>
       ELSE (IF added_lines # {}
             THEN <<[field |-> "lines_added", old |-> None, new |-> added_lines]>>
             ELSE <<>>)
            \o (IF removed_lines # {}
                THEN <<[field |-> "lines_removed", old |-> removed_lines, new |-> None]>>
                ELSE <<>>)
            \o (IF Len(old_seq) # Len(new_seq)
                THEN <<[field |-> "line_count", old |-> Len(old_seq), new |-> Len(new_seq)]>>
                ELSE <<>>)

RECURSIVE RawModifiedScan(_, _, _)
\* the loop of _diff_raw_sections_modified over the first n entries of old_sections
RawModifiedScan(old_sections, new_sections, n) ==
    IF n = 0 THEN <<>>
    ELSE LET e == old_sections[n]
             rest == RawModifiedScan(old_sections, new_sections, n - 1)
         IN IF ~Has(new_sections, e.k) THEN rest
            ELSE LET changes == RawChanges(e.v, Get(new_sections, e.k))
                 IN IF changes # <<>>
                    THEN Append(rest, [object_type |-> "raw_section", key |-> e.k,
                                       changes |-> changes, location |-> None])
                    ELSE rest

_diff_raw_sections_modified(old_sections, new_sections) ==
    RawModifiedScan(old_sections, new_sections, Len(old_sections))

\* diff_models(old, new) with the default numeric_tol
diff_models(a, b) ==
    [added |->
              _diff_dict_collection("story", a.stories, b.stories)
           \o _diff_list_collection("grid", a.grids, b.grids)
           \o _diff_dict_collection("joint", a.joints, b.joints)
           \o _diff_dict_collection("frame", a.frames, b.frames)
           \o _diff_dict_collection("material", a.materials, b.materials)
           \o _diff_dict_collection("frame_section", a.frame_sections, b.frame_sections)
           \o _diff_dict_collection("load_pattern", a.load_patterns, b.load_patterns)
           \o _diff_dict_collection("load_case", a.load_cases, b.load_cases)
           \o _diff_dict_collection("load_combo", a.load_combos, b.load_combos)
           \o _diff_dict_collection("frame_assignment", a.frame_assignments, b.frame_assignments)
           \o _diff_dict_collection("area_assignment", a.area_assignments, b.area_assignments)
           \o _diff_raw_sections(a.raw_sections, b.raw_sections),
     removed |->
              _diff_dict_collection_removed("story", a.stories, b.stories)
           \o _diff_list_collection_removed("grid", a.grids, b.grids)
           \o _diff_dict_collection_removed("joint", a.joints, b.joints)
           \o _diff_dict_collection_removed("frame", a.frames, b.frames)
           \o _diff_dict_collection_removed("material", a.materials, b.materials)
           \o _diff_dict_collection_removed("frame_section", a.frame_sections, b.frame_sections)
           \o _diff_dict_collection_removed("load_pattern", a.load_patterns, b.load_patterns)
           \o _diff_dict_collection_removed("load_case", a.load_cases, b.load_cases)
           \o _diff_dict_collection_removed("load_combo", a.load_combos, b.load_combos)
           \o _diff_dict_collection_removed("frame_assignment", a.frame_assignments, b.frame_assignments)
           \o _diff_dict_collection_removed("area_assignment", a.area_assignments, b.area_assignments)
           \o _diff_raw_sections_removed(a.raw_sections, b.raw_sections),
     modified |->
              _diff_dict_collection_modified("story", a.stories, b.stories)
           \o _diff_dict_collection_modified("joint", a.joints, b.joints)
           \o _diff_dict_collection_modified("frame", a.frames, b.frames)
           \o _diff_dict_collection_modified("material", a.materials, b.materials)
           \o _diff_dict_collection_modified("frame_section", a.frame_sections, b.frame_sections)
           \o _diff_dict_collection_modified("load_pattern", a.load_patterns, b.load_patterns)
           \o _diff_dict_collection_modified("load_case", a.load_cases, b.load_cases)
           \o _diff_dict_collection_modified("load_combo", a.load_combos, b.load_combos)
           \o _diff_dict_collection_modified("frame_assignment", a.frame_assignments, b.frame_assignments)
           \o _diff_dict_collection_modified("area_assignment", a.area_assignments, b.area_assignments)
           \o _diff_raw_sections_modified(a.raw_sections, b.raw_sections)]

-----------------------------------------------------------------------------
(* aggregate.py *)

\* the names of the model that contain ':', with their parts between the colons
ColonNames == { <<"W10:A", <<"W10", "A">> >>, <<"L1:W10", <<"L1", "W10">> >> }
\* s.split(':'): a string is determined by the sequence of its parts
ColonSplit(s) ==
    IF \E e \in ColonNames : e[1] = s
    THEN (CHOOSE e \in ColonNames : e[1] = s)[2]
    ELSE <<s>>
\* f"{v}" of an Optional[str]
Fmt(v) == IF IsNone(v) THEN "None" ELSE v.str
\* f"{object_type}:{story}:{old_section}:{new_section}", as its parts between
\* the colons
ClusterKey(object_type, story, old_section, new_section) ==
    ColonSplit(object_type) \o ColonSplit(Fmt(story))
        \o ColonSplit(old_section) \o ColonSplit(new_section)

\* the first FieldChange of field "section" in changes, or None
SectionChange(changes) ==
    IF \E i \in DOMAIN changes : changes[i].field = "section"
    THEN changes[CHOOSE i \in DOMAIN changes :
                    /\ changes[i].field = "section"
                    /\ \A j \in 1..(i - 1) : changes[j].field # "section"]
    ELSE None

\* ast.literal_eval(mod.key) for a key that starts with '('
IsTupleStr(s) == \E e \in TupleRepr : e[2] = s
literal_eval(s) == (CHOOSE e \in TupleRepr : e[2] = s)[1]

\* AddToCluster without the limit of 5 example names
AddToClusterUncapped(clusters, frame, example, object_type, story, old_section, new_section) ==
    LET cluster_key == ClusterKey(object_type, story, old_section, new_section)
        cluster == IF Has(clusters, cluster_key) THEN Get(clusters, cluster_key)
                   ELSE [object_type |-> object_type, story |-> story,
                         old_section |-> old_section, new_section |-> new_section,
                         count |-> 0, example_objects |-> <<>>, grid_region |-> None]
    IN Put(clusters, cluster_key,
           [cluster EXCEPT !.count = @ + 1,
                           !.example_objects = Append(@, example)])

\* one swap record lands in clusters: create the cluster if needed, count, keep
\* up to 5 example names, collect the grid tags
AddToCluster(clusters, frame, example, object_type, story, old_section, new_section) ==
    LET cluster_key == ClusterKey(object_type, story, old_section, new_section)
        cluster == IF Has(clusters, cluster_key) THEN Get(clusters, cluster_key)
                   ELSE [object_type |-> object_type, story |-> story,
                         old_section |-> old_section, new_section |-> new_section,
                         count |-> 0, example_objects |-> <<>>, grid_region |-> None]
        loc == frame.location
        region == IF Truthy(loc.grid_x) /\ Truthy(loc.grid_y)
                  THEN LET r == IF IsNone(cluster.grid_region)
                                THEN [grid_x |-> {}, grid_y |-> {}]
                                ELSE cluster.grid_region
                       IN [grid_x |-> r.grid_x \cup {loc.grid_x.str},
                           grid_y |-> r.grid_y \cup {loc.grid_y.str}]
                  ELSE cluster.grid_region
    IN Put(clusters, cluster_key,
           [cluster EXCEPT
              !.count = @ + 1,
              !.example_objects = IF Len(@) < 5 THEN Append(@, example) ELSE @,
              !.grid_region = region])

\* the body of the loop of _aggregate_section_swaps for one modified record
SwapStep(clusters, mod, new_model) ==
    IF mod.object_type = "frame_assignment"
    THEN LET section_change == SectionChange(mod.changes)
         IN IF IsNone(section_change) \/ ~IsTupleStr(mod.key) THEN clusters
            ELSE LET key_tuple == literal_eval(mod.key)
                     frame_name == key_tuple[1]
                     frame == GetOrNone(new_model.frames, frame_name)
                 IN IF IsNone(frame) THEN clusters
                    ELSE AddToCluster(clusters, frame, frame_name,
                            Fmt(OrElse(frame.object_type, Str("frame"))),
                            OrElse(Str(key_tuple[2]),
                                   OrElse(frame.story, frame.location.story)),
                            section_change.old, section_change.new)
    ELSE IF mod.object_type = "frame"
    THEN LET section_change == SectionChange(mod.changes)
             frame == GetOrNone(new_model.frames, mod.key)
         IN IF IsNone(section_change) \/ IsNone(frame) THEN clusters
            ELSE AddToCluster(clusters, frame, mod.key,
                    Fmt(OrElse(frame.object_type, Str("frame"))),
                    OrElse(frame.story, frame.location.story),
                    section_change.old, section_change.new)
    ELSE clusters

RECURSIVE SwapScan(_, _, _)
\* the loop of _aggregate_section_swaps over the first n modified records
SwapScan(modified, new_model, n) ==
    IF n = 0 THEN <<>>
    ELSE SwapStep(SwapScan(modified, new_model, n - 1), modified[n], new_model)

\* the grid names of the model in the order Python sorts them
SortOrder == <<"1", "2", "A", "B", "C">>
RECURSIVE SortedPrefix(_, _)
SortedPrefix(set, n) ==
    IF n = 0 THEN <<>>
    ELSE IF SortOrder[n] \in set
         THEN Append(SortedPrefix(set, n - 1), SortOrder[n])
         ELSE SortedPrefix(set, n - 1)
\* sorted(list(set))
Sorted(set) == SortedPrefix(set, Len(SortOrder))

_aggregate_section_swaps(raw_diff, old_model, new_model) ==
    LET clusters == SwapScan(raw_diff.modified, new_model, Len(raw_diff.modified))
    IN [i \in DOMAIN clusters |->
          LET c == clusters[i].v
          IN IF IsNone(c.grid_region) THEN c
             ELSE [c EXCEPT !.grid_region =
                      [grid_x |-> Sorted(c.grid_region.grid_x),
                       grid_y |-> Sorted(c.grid_region.grid_y)]]]

RECURSIVE ComboAddedScan(_, _, _)
\* the first loop of _aggregate_load_combo_changes
ComboAddedScan(added, new_model, n) ==
    IF n = 0 THEN <<>>
    ELSE LET rest == ComboAddedScan(added, new_model, n - 1)
             rec == added[n]
         IN IF rec.object_type = "load_combo" /\ Has(new_model.load_combos, rec.key)
            THEN Append(rest, [name |-> rec.key, change_type |-> "added",
                               old_terms |-> None,
                               new_terms |-> Get(new_model.load_combos, rec.key).terms,
                               term_changes |-> None])
            ELSE rest

RECURSIVE ComboRemovedScan(_, _, _)
\* the second loop of _aggregate_load_combo_changes
ComboRemovedScan(removed, old_model, n) ==
    IF n = 0 THEN <<>>
    ELSE LET rest == ComboRemovedScan(removed, old_model, n - 1)
             rec == removed[n]
         IN IF rec.object_type = "load_combo" /\ Has(old_model.load_combos, rec.key)
            THEN Append(rest, [name |-> rec.key, change_type |-> "removed",
                               old_terms |-> Get(old_model.load_combos, rec.key).terms,
                               new_terms |-> None,
                               term_changes |-> None])
            ELSE rest

RECURSIVE ComboModifiedScan(_, _, _, _)
\* the third loop of _aggregate_load_combo_changes
ComboModifiedScan(modified, old_model, new_model, n) ==
    IF n = 0 THEN <<>>
    ELSE LET rest == ComboModifiedScan(modified, old_model, new_model, n - 1)
             mod == modified[n]
         IN IF /\ mod.object_type = "load_combo"
               /\ Has(old_model.load_combos, mod.key)
               /\ Has(new_model.load_combos, mod.key)
            THEN Append(rest, [name |-> mod.key, change_type |-> "modified",
                               old_terms |-> Get(old_model.load_combos, mod.key).terms,
                               new_terms |-> Get(new_model.load_combos, mod.key).terms,
                               term_changes |-> None])
            ELSE rest

\* the added and the removed combos only
_aggregate_load_combo_changes_unmodified(raw_diff, old_model, new_model) ==
    ComboAddedScan(raw_diff.added, new_model, Len(raw_diff.added))
      \o ComboRemovedScan(raw_diff.removed, old_model, Len(raw_diff.removed))

_aggregate_load_combo_changes(raw_diff, old_model, new_model) ==
    ComboAddedScan(raw_diff.added, new_model, Len(raw_diff.added))
      \o ComboRemovedScan(raw_diff.removed, old_model, Len(raw_diff.removed))
      \o ComboModifiedScan(raw_diff.modified, old_model, new_model,
                           Len(raw_diff.modified))

RECURSIVE ChangedFields(_, _)
\* {change.field: change for change in changes}
ChangedFields(changes, n) ==
    IF n = 0 THEN <<>>
    ELSE Put(ChangedFields(changes, n - 1), changes[n].field, changes[n])

RECURSIVE MaterialScan(_, _)
\* the loop of _aggregate_material_changes
MaterialScan(modified, n) ==
    IF n = 0 THEN <<>>
    ELSE LET rest == MaterialScan(modified, n - 1)
             mod == modified[n]
         IN IF mod.object_type = "material" /\ mod.changes # <<>>
            THEN Append(rest, [material |-> mod.key,
                               changed_fields |->
                                   ChangedFields(mod.changes, Len(mod.changes))])
            ELSE rest

_aggregate_material_changes(raw_diff) ==
    MaterialScan(raw_diff.modified, Len(raw_diff.modified))

RECURSIVE CountScan(_, _, _, _)
\* the two counting loops of _aggregate_geometry_changes: the first n records
\* of recs bump the counter named which
CountScan(counts, recs, which, n) ==
    IF n = 0 THEN counts
    ELSE LET c == CountScan(counts, recs, which, n - 1)
             obj_type == recs[n].object_type
             cur == IF Has(c, obj_type) THEN Get(c, obj_type)
                    ELSE [added |-> 0, removed |-> 0]
         IN Put(c, obj_type, [cur EXCEPT ![which] = @ + 1])

RECURSIVE GeometryEntries(_, _)
\* the loop that creates the summary entries
GeometryEntries(counts, n) ==
    IF n = 0 THEN <<>>
    ELSE LET rest == GeometryEntries(counts, n - 1)
             e == counts[n]
         IN IF e.v.added > 0 \/ e.v.removed > 0
            THEN Append(rest, [object_type |-> e.k, added |-> e.v.added,
                               removed |-> e.v.removed])
            ELSE rest

\* the removed records counted as added ones
GeometryAllAdded(raw_diff) ==
    LET c1 == CountScan(<<>>, raw_diff.added, "added", Len(raw_diff.added))
        counts == CountScan(c1, raw_diff.removed, "added", Len(raw_diff.removed))
    IN GeometryEntries(counts, Len(counts))

_aggregate_geometry_changes(raw_diff) ==
    LET c1 == CountScan(<<>>, raw_diff.added, "added", Len(raw_diff.added))
        counts == CountScan(c1, raw_diff.removed, "removed", Len(raw_diff.removed))
    IN GeometryEntries(counts, Len(counts))

RECURSIVE FieldNames(_, _)
\* [c.field for c in changes if keep], keep dropping the field named drop
FieldNames(changes, drop) ==
    IF changes = <<>> THEN <<>>
    ELSE LET n == Len(changes)
             rest == FieldNames(SubSeq(changes, 1, n - 1), drop)
         IN IF changes[n].field # drop THEN Append(rest, changes[n].field) ELSE rest

\* "AREA ASSIGN" in name.upper() or "LINE ASSIGN" in name.upper()
IsAssignBlock(name) == KeywordIn("AREA ASSIGN", name) \/ KeywordIn("LINE ASSIGN", name)

RECURSIVE LinesCount(_, _, _)
\* the loop over mod.changes that sets lines_added / lines_removed: the last
\* change of that field with a non-empty list decides, 0 without one
LinesCount(changes, field, n) ==
    IF n = 0 THEN 0
    ELSE LET c == changes[n]
             lines == IF field = "lines_added" THEN c.new ELSE c.old
         IN IF c.field = field /\ lines # {}
            THEN Cardinality(lines)
            ELSE LinesCount(changes, field, n - 1)

RECURSIVE OtherSectionScan(_, _)
\* first loop of _aggregate_other_changes: frame_section property changes
OtherSectionScan(modified, n) ==
    IF n = 0 THEN <<>>
    ELSE LET rest == OtherSectionScan(modified, n - 1)
             mod == modified[n]
             non_section_changes ==
                 IF mod.object_type = "frame_section"
                 THEN FieldNames(mod.changes, "section") ELSE <<>>
         IN IF non_section_changes # <<>>
            THEN Append(rest, [type |-> "frame_section_property_change",
                               section |-> mod.key,
                               fields_changed |-> non_section_changes])
            ELSE rest

RECURSIVE OtherLoadScan(_, _)
\* second loop: load pattern / load case changes
OtherLoadScan(modified, n) ==
    IF n = 0 THEN <<>>
    ELSE LET rest == OtherLoadScan(modified, n - 1)
             mod == modified[n]
         IN IF mod.object_type \in {"load_pattern", "load_case"}
            THEN Append(rest, [type |-> IF mod.object_type = "load_pattern"
                                        THEN "load_pattern_change"
                                        ELSE "load_case_change",
                               name |-> mod.key,
                               fields_changed |-> FieldNames(mod.changes, "")])
            ELSE rest

RECURSIVE OtherRawScan(_, _)
\* third loop: modified raw sections
OtherRawScan(modified, n) ==
    IF n = 0 THEN <<>>
    ELSE LET rest == OtherRawScan(modified, n - 1)
             mod == modified[n]
         IN IF mod.object_type # "raw_section" THEN rest
            ELSE IF IsAssignBlock(mod.key)
            THEN LET lines_added ==
                         LinesCount(mod.changes, "lines_added", Len(mod.changes))
                     lines_removed ==
                         LinesCount(mod.changes, "lines_removed", Len(mod.changes))
                 IN Append(rest, [type |-> "section_assignment_change",
                                  section_name |-> mod.key,
                                  lines_added |-> lines_added,
                                  lines_removed |-> lines_removed,
                                  net_change |-> lines_added - lines_removed])
            ELSE Append(rest, [type |-> "raw_section_change",
                               section_name |-> mod.key,
                               fields_changed |-> FieldNames(mod.changes, "")])

RECURSIVE OtherRawAddRemScan(_, _, _)
\* fourth and fifth loop: raw sections added (which = "added") or removed
OtherRawAddRemScan(recs, which, n) ==
    IF n = 0 THEN <<>>
    ELSE LET rest == OtherRawAddRemScan(recs, which, n - 1)
             rec == recs[n]
         IN IF rec.object_type = "raw_section" /\ IsAssignBlock(rec.key)
            THEN Append(rest,
                   [type |-> IF which = "added" THEN "section_assignment_added"
                             ELSE "section_assignment_removed",
                    section_name |-> rec.key,
                    line_count |-> IF which = "added" THEN rec.new_data.line_count
                                   ELSE rec.old_data.line_count])
            ELSE rest

_aggregate_other_changes(raw_diff) ==
    OtherSectionScan(raw_diff.modified, Len(raw_diff.modified))
      \o OtherLoadScan(raw_diff.modified, Len(raw_diff.modified))
      \o OtherRawScan(raw_diff.modified, Len(raw_diff.modified))
      \o OtherRawAddRemScan(raw_diff.added, "added", Len(raw_diff.added))
      \o OtherRawAddRemScan(raw_diff.removed, "removed", Len(raw_diff.removed))

aggregate_diff(raw_diff, old_model, new_model) ==
    [section_swaps |-> _aggregate_section_swaps(raw_diff, old_model, new_model),
     load_combo_changes |->
         _aggregate_load_combo_changes(raw_diff, old_model, new_model),
     material_changes |-> _aggregate_material_changes(raw_diff),
     geometry_changes |-> _aggregate_geometry_changes(raw_diff),
     other_changes |-> _aggregate_other_changes(raw_diff)]

-----------------------------------------------------------------------------
(* parser.py: parse_sections_from_text.  A str is here a sequence of        *)
(* one-character strings.                                                  *)

Whitespace == {" ", "\t", "\n"}

RECURSIVE splitlines(_)
\* text.splitlines(): the lines between the line breaks, without them; no
\* empty last line after a final line break
splitlines(t) ==
    IF t = <<>> THEN <<>>
    ELSE IF \E i \in DOMAIN t : t[i] = "\n"
    THEN LET i == CHOOSE i \in DOMAIN t :
                      t[i] = "\n" /\ \A j \in 1..(i - 1) : t[j] # "\n"
         IN <<SubSeq(t, 1, i - 1)>> \o splitlines(SubSeq(t, i + 1, Len(t)))
    ELSE <<t>>

RECURSIVE lstrip(_)
lstrip(l) == IF l # <<>> /\ l[1] \in Whitespace THEN lstrip(Tail(l)) ELSE l
RECURSIVE rstrip(_)
rstrip(l) ==
    IF l # <<>> /\ l[Len(l)] \in Whitespace THEN rstrip(SubSeq(l, 1, Len(l) - 1)) ELSE l
\* line.strip()
strip(l) == rstrip(lstrip(l))

\* line.startswith(prefix)
startswith(l, prefix) == Len(l) >= Len(prefix) /\ SubSeq(l, 1, Len(prefix)) = prefix

FilePrefix == <<"$", " ", "F", "i", "l", "e", " ">>

-----------------------------------------------------------------------------
(* model.py: the dataclasses as the section parsers of parser.py build them *)

Story(name, elevation) ==
    [name |-> name, elevation |-> Num(elevation), height |-> None,
     is_master_story |-> Bool(FALSE), index |-> None]
GridLine(name, coord, direction) ==
    [name |-> name, coord |-> Num(coord), direction |-> direction]
\* x, y, z are floats: float() of a token parses "nan" too
Joint(name, x, y, z) ==
    [name |-> name, x |-> x, y |-> y, z |-> z,
     story |-> None, grid_x |-> None, grid_y |-> None]
LocationInfo ==
    [story |-> None, grid_x |-> None, grid_y |-> None,
     grid_x_span |-> None, grid_y_span |-> None]
FrameObject(name, joint_i, joint_j, section) ==
    [name |-> name, joint_i |-> joint_i, joint_j |-> joint_j, section |-> section,
     story |-> None, object_type |-> None, location |-> LocationInfo,
     raw_fields |-> <<>>]
Material(name, type, E, Fy, fc) ==
    [name |-> name, type |-> type, E |-> E, Fy |-> Fy, fc |-> fc,
     density |-> None, raw_fields |-> <<>>]
FrameSection(name, material, shape_label) ==
    [name |-> name, material |-> material, shape_type |-> "I",
     shape_label |-> shape_label, area |-> None, Ix |-> None, Iy |-> None,
     J |-> None, raw_fields |-> <<>>]
LoadPattern(name, load_type, self_weight_multiplier) ==
    [name |-> name, load_type |-> load_type,
     self_weight_multiplier |-> Num(self_weight_multiplier), raw_fields |-> <<>>]
LoadCase(name, case_type, pattern) ==
    [name |-> name, case_type |-> case_type, pattern |-> pattern,
     is_auto |-> Bool(FALSE), raw_fields |-> <<>>]
LoadComboTerm(name, factor) == [name |-> name, factor |-> Num(factor)]
LoadCombo(name, design_type, terms) ==
    [name |-> name, design_type |-> design_type, terms |-> terms,
     raw_fields |-> <<>>]
FrameAssignment(frame_name, story, section) ==
    [frame_name |-> frame_name, story |-> story, section |-> section,
     propmod_t |-> None, propmod_i22 |-> None, propmod_i33 |-> None,
     release |-> None, raw_fields |-> <<>>]
AreaAssignment(area_name, story, section, diaphragm) ==
    [area_name |-> area_name, story |-> story, section |-> section,
     diaphragm |-> diaphragm, raw_fields |-> <<>>]

\* {obj.name: obj}, {(element, story): obj}
ByName(objs) == [i \in DOMAIN objs |-> [k |-> objs[i].name, v |-> objs[i]]]
ByFrameStory(objs) ==
    [i \in DOMAIN objs |-> [k |-> <<objs[i].frame_name, objs[i].story>>, v |-> objs[i]]]
ByAreaStory(objs) ==
    [i \in DOMAIN objs |-> [k |-> <<objs[i].area_name, objs[i].story>>, v |-> objs[i]]]

\* EtabsModel(program_info), every collection empty
EtabsModel ==
    [stories |-> <<>>, grids |-> <<>>, joints |-> <<>>, frames |-> <<>>,
     materials |-> <<>>, frame_sections |-> <<>>, load_patterns |-> <<>>,
     load_cases |-> <<>>, load_combos |-> <<>>, frame_assignments |-> <<>>,
     area_assignments |-> <<>>, raw_sections |-> <<>>]

-----------------------------------------------------------------------------
(* The snapshots the pipeline is run on.  Values are in thousandths: the    *)
(* story height 120 is 120000.                                             *)

\* bounds
NumFrames == 6        \* frames of a snapshot of the section-swap family
MaxTagPasses == 2     \* tagging passes run on one snapshot

FrameNames == <<"F1", "F2", "F3", "F4", "F5", "F6", "F7", "F8">>

J1 == Joint("J1", Num(0), Num(0), Num(0))
J2 == Joint("J2", Num(0), Num(0), Num(120000))
J3 == Joint("J3", Num(120000), Num(0), Num(0))

StoryOpts ==
    { <<>>,
      <<Story("S1", 0), Story("S2", 120000)>>,
      <<Story("S1", 1), Story("S2", 120002)>> }
GridOpts ==
    { <<>>,
      <<GridLine("A", 0, "X"), GridLine("1", 0, "Y")>>,
      <<GridLine("A", 0, "X"), GridLine("B", 120000, "X"),
        GridLine("2", 1, "Y"), GridLine("2", 0, "Y")>> }
JointOpts ==
    { <<J1, J2>>,
      <<J1, Joint("J2", Num(0), Num(0), Num(120001)), J3>>,
      <<J1, Joint("J2", Num(0), Num(2), Num(120000))>>,
      <<Joint("J1", NaN, Num(0), Num(0)), J2>> }
FrameOpts ==
    { <<>>,
      <<FrameObject("F1", "J1", "J2", "W10X10")>>,
      <<FrameObject("F1", "J1", "J2", "W12X12")>>,
      <<FrameObject("F2", "J1", "J3", "W10X10")>> }

\* stories, joints and frames vary; the grids are fixed
FamGeometry ==
    { [EtabsModel EXCEPT !.stories = ByName(s), !.joints = ByName(j),
                         !.frames = ByName(f),
                         !.grids = <<GridLine("A", 0, "X"), GridLine("1", 0, "Y")>>] :
        s \in StoryOpts, j \in JointOpts, f \in FrameOpts }

\* grids, joints and frames vary; the stories are fixed
FamGrids ==
    { [EtabsModel EXCEPT !.grids = g, !.joints = ByName(j), !.frames = ByName(f),
                         !.stories = ByName(<<Story("S1", 0), Story("S2", 120000)>>)] :
        g \in GridOpts, j \in JointOpts, f \in FrameOpts }

MaterialOpts ==
    { <<>>,
      <<Material("A992", "steel", Num(29000000), Num(50000), None),
        Material("C4000", "concrete", Num(3600000), None, Num(4000))>>,
      \* every value moved by exactly its tolerance
      <<Material("A992", "steel", Num(30000000), Num(150000), None),
        Material("C4000", "concrete", Num(3600000), None, Num(14000))>>,
      \* E and fc moved by one thousandth more than the tolerance, Fy by the
      \* tolerance
      <<Material("A992", "steel", Num(30000001), Num(150000), None),
        Material("C4000", "concrete", Num(3600000), None, Num(14001))>>,
      <<Material("A992", "other", None, None, None)>> }
FrameSectionOpts ==
    { <<>>,
      <<FrameSection("W10X10", "A992", None),
        FrameSection("ConcCol24", "C4000", Str("Rect"))>>,
      <<FrameSection("W10X10", "A992", Str("W10X10")),
        FrameSection("BM18", "C4000", Str("Rect"))>> }
AreaAssignmentOpts ==
    { <<>>,
      <<AreaAssignment("A1", "S1", "SLAB1", None)>>,
      <<AreaAssignment("A1", "S1", "SLAB2", Str("D1")),
        AreaAssignment("A2", "S1", "SLAB1", None)>> }

FamProperties ==
    { [EtabsModel EXCEPT !.materials = ByName(m), !.frame_sections = ByName(fs)] :
        m \in MaterialOpts, fs \in FrameSectionOpts }

LoadPatternOpts ==
    { <<>>,
      <<LoadPattern("DEAD", "Dead", 1000), LoadPattern("LIVE", "Live", 0)>>,
      <<LoadPattern("DEAD", "Dead", 1001), LoadPattern("WIND", "Wind", 0)>> }
LoadCaseOpts ==
    { <<>>,
      <<LoadCase("DEAD", "Linear Static", None)>>,
      <<LoadCase("DEAD", "Linear Static", Str("DEAD")),
        LoadCase("MODAL", "Modal", None)>> }
LoadComboOpts ==
    { <<>>,
      <<LoadCombo("U1", None, <<LoadComboTerm("DEAD", 1200), LoadComboTerm("LIVE", 1600)>>)>>,
      <<LoadCombo("U1", None, <<LoadComboTerm("LIVE", 1600), LoadComboTerm("DEAD", 1200)>>)>>,
      <<LoadCombo("U1", Str("Strength"),
                  <<LoadComboTerm("DEAD", 1201), LoadComboTerm("LIVE", 1600)>>),
        LoadCombo("U2", None, <<LoadComboTerm("DEAD", 1400)>>)>> }
RawSectionOpts ==
    { <<>>,
      << [k |-> "CONTROLS", v |-> <<"UNITS KIP IN", "TITLE1 A">>],
         [k |-> "LINE ASSIGNS", v |-> <<"LINEASSIGN C1 S1 SECTION W10X10">>] >>,
      << [k |-> "CONTROLS", v |-> <<"TITLE1 A", "UNITS KIP IN", "UNITS KIP IN">>],
         [k |-> "LINE ASSIGNS", v |-> <<"LINEASSIGN C1 S1 SECTION W12X12">>],
         [k |-> "AREA ASSIGNS", v |-> <<>>] >>,
      << [k |-> "LINE ASSIGNS", v |-> <<"LINEASSIGN C1 S1 SECTION W10X10",
                                        "LINEASSIGN C2 S1 SECTION W10X10">>],
         [k |-> "LOG", v |-> <<"saved">>] >> }

FamLoads ==
    { [EtabsModel EXCEPT !.load_patterns = ByName(lp), !.load_cases = ByName(lc),
                         !.load_combos = ByName(co)] :
        lp \in LoadPatternOpts, lc \in LoadCaseOpts, co \in LoadComboOpts }

FamBlocks ==
    { [EtabsModel EXCEPT !.area_assignments = ByAreaStory(aa), !.raw_sections = rs] :
        aa \in AreaAssignmentOpts, rs \in RawSectionOpts }

\* the section-swap family: NumFrames frames, the first `swapped` of them with
\* section W12X12 and the others W10X10; all columns, or columns and beams in
\* turn; with or without LINE ASSIGNS records
SwapFrame(i, swapped, layout) ==
    FrameObject(FrameNames[i], "J1",
                IF layout = "mixed" /\ i % 2 = 0 THEN "J3" ELSE "J2",
                IF i <= swapped THEN "W12X12" ELSE "W10X10")
SwapAssignments(variant) ==
    CASE variant = 0 -> <<>>
      [] variant = 1 -> <<FrameAssignment("F1", "S1", "W10X10"),
                          FrameAssignment("F2", "", "W10X10"),
                          FrameAssignment("F8", "S1", "W10X10")>>
      [] variant = 2 -> <<FrameAssignment("F1", "S1", "W12X12"),
                          FrameAssignment("F2", "", "W12X12"),
                          FrameAssignment("F8", "S1", "W12X12")>>
FamSwaps ==
    { [EtabsModel EXCEPT
         !.stories = ByName(<<Story("S1", 0), Story("S2", 120000)>>),
         !.grids = <<GridLine("A", 0, "X"), GridLine("1", 0, "Y")>>,
         !.joints = ByName(<<J1, J2, J3>>),
         !.frames = ByName([i \in 1..NumFrames |-> SwapFrame(i, swapped, layout)]),
         !.frame_assignments = ByFrameStory(SwapAssignments(variant))] :
        swapped \in 0..NumFrames, layout \in {"columns", "mixed"}, variant \in 0..2 }

\* the tagging family: stories in three layouts, grid lines on both axes,
\* joints on, near and off the grid lines and stories, frames of every kind,
\* with and without a section table
TagStoryOpts ==
    { <<>>,
      \* not in the order of the elevations
      <<Story("S2", 120000), Story("S1", 0)>>,
      \* two stories at one elevation
      <<Story("S1", 0), Story("S2", 120000), Story("S3", 120000)>> }
TagGrids ==
    << GridLine("1", 50000, "Y"), GridLine("A", 0, "X"), GridLine("B", 120000, "X"),
       GridLine("C", 2, "X"), GridLine("2", 120000, "Y") >>
TagJoints(last_z) ==
    << Joint("J1", Num(0), Num(50000), Num(0)),
       Joint("J2", Num(0), Num(50000), Num(120000)),
       \* x midway between A and C, at the tolerance from both
       Joint("J3", Num(1), Num(50000), Num(0)),
       \* x on no X line but on the coordinate of the Y line 1, y beyond the
       \* tolerance from grid line 2, z midway between the stories
       Joint("J4", Num(50000), Num(120002), Num(60000)),
       \* far above every story, or at no elevation at all
       Joint("J5", Num(120000), Num(120000), last_z) >>
TagFrames ==
    << FrameObject("F1", "J1", "J2", "W10X10"),
       FrameObject("F2", "J1", "J3", "W10X10"),
       \* both ends on one joint
       FrameObject("F3", "J1", "J1", "ConcCol24"),
       \* an end that is no joint of the model
       FrameObject("F4", "J1", "J9", "ConcCol24"),
       FrameObject("F5", "J2", "J4", "BM18"),
       FrameObject("F6", "J2", "J4", "W10X10"),
       FrameObject("F7", "J3", "J4", "HSSBrace"),
       FrameObject("F8", "J1", "J5", "ColBeam") >>
TagSectionOpts ==
    { <<>>,
      << FrameSection("W10X10", "A992", None), FrameSection("ConcCol24", "C4000", None),
         FrameSection("BM18", "C4000", None), FrameSection("HSSBrace", "A992", None),
         FrameSection("ColBeam", "C4000", None) >> }
FamTagging ==
    { [EtabsModel EXCEPT
         !.stories = ByName(s), !.grids = TagGrids, !.joints = ByName(TagJoints(z)),
         !.frames = ByName(TagFrames), !.frame_sections = ByName(fs)] :
        s \in TagStoryOpts, z \in {Num(500000), NaN}, fs \in TagSectionOpts }

Families ==
    {FamGeometry, FamGrids, FamProperties, FamLoads, FamBlocks, FamSwaps, FamTagging}

-----------------------------------------------------------------------------
(* The pipeline of llm_call / get_diff_summary: tag old, tag new, diff,     *)
(* aggregate.                                                              *)

SegIdle ==
    /\ text = <<>> /\ cursor = 0 /\ sections = <<>>
    /\ current_section = None /\ current_lines = <<>>
GeoIdle == geom = None
ParseIdle == blocks = None
WatchIdle ==
    /\ file_changes = <<>> /\ last_file = None /\ clock = 0
    /\ last_two = None /\ recorded = <<>>

Init ==
    /\ \E fam \in Families : old \in fam /\ new \in fam
    /\ pc = "parsed"
    /\ tagCount = [old |-> 0, new |-> 0]
    /\ raw = None
    /\ agg = None
    /\ SegIdle
    /\ GeoIdle
    /\ ParseIdle
    /\ WatchIdle

\* attach_story_and_grid_tags(old_model)
TagOld ==
    /\ pc = "parsed"
    /\ old' = attach_story_and_grid_tags(old)
    /\ tagCount' = [tagCount EXCEPT !.old = 1]
    /\ pc' = "old_tagged"
    /\ UNCHANGED <<new, raw, agg>>
    /\ UNCHANGED <<segVars, geoVars, parseVars, watchVars>>

\* attach_story_and_grid_tags(new_model)
TagNew ==
    /\ pc = "old_tagged"
    /\ new' = attach_story_and_grid_tags(new)
    /\ tagCount' = [tagCount EXCEPT !.new = 1]
    /\ pc' = "tagged"
    /\ UNCHANGED <<old, raw, agg>>
    /\ UNCHANGED <<segVars, geoVars, parseVars, watchVars>>

\* a further call of attach_story_and_grid_tags on a tagged snapshot
RetagOld ==
    /\ pc = "tagged"
    /\ tagCount.old < MaxTagPasses
    /\ old' = attach_story_and_grid_tags(old)
    /\ tagCount' = [tagCount EXCEPT !.old = @ + 1]
    /\ UNCHANGED <<new, pc, raw, agg>>
    /\ UNCHANGED <<segVars, geoVars, parseVars, watchVars>>

RetagNew ==
    /\ pc = "tagged"
    /\ tagCount.new < MaxTagPasses
    /\ new' = attach_story_and_grid_tags(new)
    /\ tagCount' = [tagCount EXCEPT !.new = @ + 1]
    /\ UNCHANGED <<old, pc, raw, agg>>
    /\ UNCHANGED <<segVars, geoVars, parseVars, watchVars>>

\* the diff called before the new snapshot is tagged
DiffBeforeTagNew ==
    /\ pc = "old_tagged"
    /\ raw' = diff_models(old, new)
    /\ pc' = "diffed"
    /\ UNCHANGED <<old, new, tagCount, agg>>
    /\ UNCHANGED <<segVars, geoVars, parseVars, watchVars>>

\* the diff taking the raw blocks out of the old snapshot as it compares them
DiffPoppingRaw ==
    /\ pc = "tagged"
    /\ raw' = diff_models(old, new)
    /\ old' = [old EXCEPT !.raw_sections = <<>>]
    /\ pc' = "diffed"
    /\ UNCHANGED <<new, tagCount, agg>>
    /\ UNCHANGED <<segVars, geoVars, parseVars, watchVars>>

\* raw_diff = diff_models(old_model, new_model)
Diff ==
    /\ pc = "tagged"
    /\ raw' = diff_models(old, new)
    /\ pc' = "diffed"
    /\ UNCHANGED <<old, new, tagCount, agg>>
    /\ UNCHANGED <<segVars, geoVars, parseVars, watchVars>>

\* aggregated = aggregate_diff(raw_diff, old_model, new_model)
Aggregate ==
    /\ pc = "diffed"
    /\ agg' = aggregate_diff(raw, old, new)
    /\ pc' = "aggregated"
    /\ UNCHANGED <<old, new, tagCount, raw>>
    /\ UNCHANGED <<segVars, geoVars, parseVars, watchVars>>

Next == TagOld \/ TagNew \/ RetagOld \/ RetagNew \/ Diff \/ Aggregate

Spec == Init /\ [][Next]_vars

-----------------------------------------------------------------------------
(* Properties of the pipeline *)

\* the map-valued collections: <<object type, attribute of the snapshot>>
DictCollections ==
    { <<"story", "stories">>, <<"joint", "joints">>, <<"frame", "frames">>,
      <<"material", "materials">>, <<"frame_section", "frame_sections">>,
      <<"load_pattern", "load_patterns">>, <<"load_case", "load_cases">>,
      <<"load_combo", "load_combos">>,
      <<"frame_assignment", "frame_assignments">>,
      <<"area_assignment", "area_assignments">> }
KeyedCollections == DictCollections \cup { <<"raw_section", "raw_sections">> }

\* the (object type, key) pairs of a list of diff records
RecordKeys(recs) == { <<recs[i].object_type, recs[i].key>> : i \in DOMAIN recs }
\* the positions of the records of one object type and key
RecordsOf(recs, object_type, key) ==
    { i \in DOMAIN recs : recs[i].object_type = object_type /\ recs[i].key = key }
\* the key of a record as the diff writes it
RecordKey(object_type, key) ==
    IF object_type = "raw_section" THEN key ELSE KeyStr(object_type, key)

\* C1: the (object type, key) pairs added from old to new are those removed
\* from new to old, and those removed from old to new are those added from new
\* to old, over every collection
C1_AddedRemovedSymmetry ==
    pc = "diffed" =>
        LET back == diff_models(new, old)
        IN /\ RecordKeys(raw.added) = RecordKeys(back.removed)
           /\ RecordKeys(raw.removed) = RecordKeys(back.added)

\* a diff that adds a grid line and removes something
C1_Witness ==
    /\ pc = "diffed"
    /\ \E i \in DOMAIN raw.added : raw.added[i].object_type = "grid"
    /\ raw.removed # <<>>

\* C2: the diff of a snapshot with itself has empty added, removed and
\* modified lists
C2_SelfDiffEmpty ==
    (pc = "diffed" /\ old = new) =>
        raw.added = <<>> /\ raw.removed = <<>> /\ raw.modified = <<>>

\* the positions <<i, j>> of the FieldChange records of one field of one key
ChangesOf(object_type, key, field) ==
    UNION { { <<i, j>> : j \in { j \in DOMAIN raw.modified[i].changes :
                                   raw.modified[i].changes[j].field = field } } :
            i \in RecordsOf(raw.modified, object_type, key) }
\* is v a number that is not NaN
IsFinite(field, v) == IsNumber(field, v) /\ ~IsNaN(v)
\* old and new hold the same value in every field but one
OnlyDifference(object_type, o, w, field) ==
    \A i \in DOMAIN Fields(object_type) :
        LET g == Fields(object_type)[i]
        IN g # field => (o[g] = w[g] /\ (g \in NumericTyped => ~IsNaN(o[g])))

\* C3: for a key of both snapshots and a numeric field with tolerance t, a
\* difference of exactly t yields no FieldChange of that field (and no modified
\* record when nothing else differs), and a larger difference yields exactly
\* one FieldChange of that field, holding the two input values
C3_ToleranceBoundary ==
    pc = "diffed" =>
        \A c \in DictCollections :
            \A n \in DOMAIN old[c[2]] :
                LET key == old[c[2]][n].k
                    o == old[c[2]][n].v
                IN Has(new[c[2]], key) =>
                    LET w == Get(new[c[2]], key)
                        rkey == RecordKey(c[1], key)
                    IN \A i \in DOMAIN Fields(c[1]) :
                        LET f == Fields(c[1])[i]
                        IN (IsFinite(f, o[f]) /\ IsFinite(f, w[f])) =>
                            LET d == AbsDiff(AsFloat(o[f]), AsFloat(w[f])).num
                                slots == ChangesOf(c[1], rkey, f)
                            IN /\ d = TolOf(f) => slots = {}
                               /\ (d = TolOf(f) /\ OnlyDifference(c[1], o, w, f)) =>
                                      RecordsOf(raw.modified, c[1], rkey) = {}
                               /\ d > TolOf(f) =>
                                      /\ Cardinality(slots) = 1
                                      /\ \A s \in slots :
                                            LET ch == raw.modified[s[1]].changes[s[2]]
                                            IN ch.old = o[f] /\ ch.new = w[f]

\* a material whose Fy moved by exactly its tolerance and whose E moved by
\* more, reported with the change of E only
C3_Witness ==
    /\ pc = "diffed"
    /\ \E n \in DOMAIN old.materials :
          LET key == old.materials[n].k
              o == old.materials[n].v
          IN /\ Has(new.materials, key)
             /\ LET w == Get(new.materials, key)
                IN /\ IsFinite("Fy", o.Fy) /\ IsFinite("Fy", w.Fy)
                   /\ AbsDiff(o.Fy, w.Fy).num = TolOf("Fy")
                   /\ IsFinite("E", o.E) /\ IsFinite("E", w.E)
                   /\ AbsDiff(o.E, w.E).num > TolOf("E")
                   /\ Cardinality(ChangesOf("material", key, "E")) = 1
                   /\ ChangesOf("material", key, "Fy") = {}

\* what a modified record contributes to the section swaps: nothing, or the
\* (object type, story, old section, new section) it resolves to
SwapTuple(mod) ==
    LET section_change == SectionChange(mod.changes)
        frame_name == IF mod.object_type = "frame_assignment"
                      THEN literal_eval(mod.key)[1] ELSE mod.key
        frame == GetOrNone(new.frames, frame_name)
    IN IF mod.object_type \notin {"frame", "frame_assignment"}
          \/ IsNone(section_change) \/ IsNone(frame)
       THEN [contributes |-> FALSE]
       ELSE [contributes |-> TRUE,
             object_type |-> IF Truthy(frame.object_type)
                             THEN frame.object_type.str ELSE "frame",
             story |-> IF mod.object_type = "frame_assignment"
                          /\ literal_eval(mod.key)[2] # ""
                       THEN Str(literal_eval(mod.key)[2])
                       ELSE IF Truthy(frame.story) THEN frame.story
                       ELSE frame.location.story,
             old_section |-> section_change.old,
             new_section |-> section_change.new]
\* the same four fields of a cluster
ClusterTuple(cluster) ==
    [contributes |-> TRUE, object_type |-> cluster.object_type,
     story |-> cluster.story, old_section |-> cluster.old_section,
     new_section |-> cluster.new_section]

\* C4: the frame and frame_assignment records with a section change that
\* resolve to the same (object type, story, old section, new section) are in
\* one cluster, whose count is the number of these records and whose
\* example_objects holds at most 5 names
C4_SwapClusters ==
    pc = "aggregated" =>
        \A i \in DOMAIN raw.modified :
            LET t == SwapTuple(raw.modified[i])
            IN t.contributes =>
                LET records == { j \in DOMAIN raw.modified :
                                    SwapTuple(raw.modified[j]) = t }
                    clusters == { c \in DOMAIN agg.section_swaps :
                                    ClusterTuple(agg.section_swaps[c]) = t }
                IN /\ Cardinality(clusters) = 1
                   /\ \A c \in clusters :
                        /\ agg.section_swaps[c].count = Cardinality(records)
                        /\ Len(agg.section_swaps[c].example_objects) <= 5

\* a cluster of more than 5 records, fed by a frame and by a frame_assignment
C4_Witness ==
    /\ pc = "aggregated"
    /\ \E c \in DOMAIN agg.section_swaps :
          LET t == ClusterTuple(agg.section_swaps[c])
          IN /\ agg.section_swaps[c].count > 5
             /\ Len(agg.section_swaps[c].example_objects) = 5
             /\ \E i, j \in DOMAIN raw.modified :
                   /\ raw.modified[i].object_type = "frame"
                   /\ raw.modified[j].object_type = "frame_assignment"
                   /\ SwapTuple(raw.modified[i]) = t
                   /\ SwapTuple(raw.modified[j]) = t

\* the snapshot holds the frame F1 only, of this section, between J1 at
\* (0, 0, 0) and J2 at (0, 0, 120), and no section table or assignment
ColumnScenario(model, section) ==
    /\ Keys(model.frames) = {"F1"}
    /\ Get(model.frames, "F1").joint_i = "J1"
    /\ Get(model.frames, "F1").joint_j = "J2"
    /\ Get(model.frames, "F1").section = section
    /\ Has(model.joints, "J1") /\ Has(model.joints, "J2")
    /\ LET a == Get(model.joints, "J1")
           b == Get(model.joints, "J2")
       IN /\ a.x = Num(0) /\ a.y = Num(0) /\ a.z = Num(0)
          /\ b.x = Num(0) /\ b.y = Num(0) /\ b.z = Num(120000)
    /\ model.frame_sections = <<>>
    /\ model.frame_assignments = <<>>

\* C5: F1 between J1 (0,0,0) and J2 (0,0,120) with section W10X10 in old and
\* W12X12 in new gives, after tagging, diffing and aggregating, exactly one
\* section-swap cluster: a column, count 1, W10X10 to W12X12, examples [F1]
C5_ColumnSwapEndToEnd ==
    ( /\ pc = "aggregated"
      /\ ColumnScenario(old, "W10X10")
      /\ ColumnScenario(new, "W12X12") ) =>
        /\ Len(agg.section_swaps) = 1
        /\ agg.section_swaps[1].object_type = "column"
        /\ agg.section_swaps[1].count = 1
        /\ agg.section_swaps[1].old_section = "W10X10"
        /\ agg.section_swaps[1].new_section = "W12X12"
        /\ agg.section_swaps[1].example_objects = <<"F1">>

\* the scenario has run to the end, on snapshots with stories
C5_Witness ==
    /\ pc = "aggregated"
    /\ ColumnScenario(old, "W10X10")
    /\ ColumnScenario(new, "W12X12")
    /\ old.stories # <<>> /\ new.stories # <<>>
    /\ Len(agg.section_swaps) = 1

\* the object types of the records of a list
TypesOf(recs) == { recs[i].object_type : i \in DOMAIN recs }
\* how many records of a list are of one object type
CountOf(recs, object_type) ==
    Cardinality({ i \in DOMAIN recs : recs[i].object_type = object_type })

\* C6: the geometry changes hold exactly one entry for each object type with
\* an Added or a Removed record, and no other; its added and removed are the
\* numbers of Added and Removed records of that type
C6_GeometryCounts ==
    pc = "aggregated" =>
        /\ \A t \in TypesOf(raw.added) \cup TypesOf(raw.removed) :
              LET entries == { e \in DOMAIN agg.geometry_changes :
                                  agg.geometry_changes[e].object_type = t }
              IN /\ Cardinality(entries) = 1
                 /\ \A e \in entries :
                       /\ agg.geometry_changes[e].added = CountOf(raw.added, t)
                       /\ agg.geometry_changes[e].removed = CountOf(raw.removed, t)
        /\ \A e \in DOMAIN agg.geometry_changes :
              agg.geometry_changes[e].object_type
                  \in TypesOf(raw.added) \cup TypesOf(raw.removed)

\* the new snapshot only adds joint J3: one Added record, one entry
C6_Witness ==
    /\ pc = "aggregated"
    /\ Len(raw.added) = 1
    /\ raw.added[1].object_type = "joint" /\ raw.added[1].key = "J3"
    /\ raw.removed = <<>>
    /\ agg.geometry_changes = <<[object_type |-> "joint", added |-> 1, removed |-> 0]>>

\* C7: a tagging pass on a snapshot that was tagged before changes none of
\* its derived fields: the snapshot stays as it is
C7_TaggingIdempotent ==
    [][ /\ (tagCount.old >= 1 /\ tagCount'.old = tagCount.old + 1) => old' = old
        /\ (tagCount.new >= 1 /\ tagCount'.new = tagCount.new + 1) => new' = new ]_vars

\* both snapshots went through two passes, with a frame that got a story and
\* a joint that got a grid line
C7_Witness ==
    /\ tagCount.old >= 2 /\ tagCount.new >= 2
    /\ \E i \in DOMAIN old.frames :
          /\ Truthy(old.frames[i].v.story)
          /\ Truthy(old.frames[i].v.location.story)
    /\ \E i \in DOMAIN new.joints : Truthy(new.joints[i].v.grid_x)

\* C9: in every map-valued collection a key of new only has exactly one Added
\* record and no other, a key of old only has exactly one Removed record and no
\* other, and a key of both has at most one Modified record and no other; so a
\* renamed object is one Removed plus one Added and never a Modified
C9_OneRecordPerKey ==
    pc = "diffed" =>
        \A c \in KeyedCollections :
            /\ \A n \in DOMAIN new[c[2]] :
                  LET key == new[c[2]][n].k
                      rkey == RecordKey(c[1], key)
                  IN ~Has(old[c[2]], key) =>
                        /\ Cardinality(RecordsOf(raw.added, c[1], rkey)) = 1
                        /\ RecordsOf(raw.removed, c[1], rkey) = {}
                        /\ RecordsOf(raw.modified, c[1], rkey) = {}
            /\ \A n \in DOMAIN old[c[2]] :
                  LET key == old[c[2]][n].k
                      rkey == RecordKey(c[1], key)
                  IN IF Has(new[c[2]], key)
                     THEN /\ Cardinality(RecordsOf(raw.modified, c[1], rkey)) <= 1
                          /\ RecordsOf(raw.added, c[1], rkey) = {}
                          /\ RecordsOf(raw.removed, c[1], rkey) = {}
                     ELSE /\ Cardinality(RecordsOf(raw.removed, c[1], rkey)) = 1
                          /\ RecordsOf(raw.added, c[1], rkey) = {}
                          /\ RecordsOf(raw.modified, c[1], rkey) = {}

\* a frame section renamed between the snapshots: removed under the old name
\* and added under the new one, with the same data otherwise
C9_Witness ==
    /\ pc = "diffed"
    /\ \E i \in DOMAIN raw.removed : \E j \in DOMAIN raw.added :
          /\ raw.removed[i].object_type = "frame_section"
          /\ raw.added[j].object_type = "frame_section"
          /\ raw.removed[i].key # raw.added[j].key
          /\ [raw.removed[i].old_data EXCEPT !.name = raw.added[j].key]
                = raw.added[j].new_data

\* C10: every Modified record of a diff has at least one FieldChange
C10_ModifiedHasChanges ==
    pc = "diffed" =>
        \A i \in DOMAIN raw.modified : raw.modified[i].changes # <<>>

\* a material of both snapshots whose values differ, all within tolerance,
\* and that is not reported
C10_Witness ==
    /\ pc = "diffed"
    /\ \E n \in DOMAIN old.materials :
          LET key == old.materials[n].k
          IN /\ Has(new.materials, key)
             /\ Get(new.materials, key) # old.materials[n].v
             /\ RecordsOf(raw.modified, "material", key) = {}

\* the FieldChange records of one field in the Modified records of a raw block
RawFieldChanges(key, field) ==
    { raw.modified[s[1]].changes[s[2]] : s \in ChangesOf("raw_section", key, field) }
\* lines_added and lines_removed of a block of both snapshots are recorded as
\* the two differences of the line sets, each when it is not empty
LineSetsRecorded(key, o, w) ==
    LET added_lines == SeqToSet(w) \ SeqToSet(o)
        removed_lines == SeqToSet(o) \ SeqToSet(w)
    IN /\ Cardinality(ChangesOf("raw_section", key, "lines_added"))
             = (IF added_lines = {} THEN 0 ELSE 1)
       /\ \A ch \in RawFieldChanges(key, "lines_added") :
             ch.new = added_lines /\ ch.old = None
       /\ Cardinality(ChangesOf("raw_section", key, "lines_removed"))
             = (IF removed_lines = {} THEN 0 ELSE 1)
       /\ \A ch \in RawFieldChanges(key, "lines_removed") :
             ch.old = removed_lines /\ ch.new = None

\* C11, as stated: a raw block of both snapshots whose line sets differ has one
\* Modified record, with the lines of new only, the lines of old only and the
\* two line counts; a block whose line sets are equal has none
C11_RawModifiedAsStated ==
    pc = "diffed" =>
        \A n \in DOMAIN old.raw_sections :
            LET key == old.raw_sections[n].k
                o == old.raw_sections[n].v
            IN Has(new.raw_sections, key) =>
                LET w == Get(new.raw_sections, key)
                    recs == RecordsOf(raw.modified, "raw_section", key)
                IN IF SeqToSet(o) = SeqToSet(w) THEN recs = {}
                   ELSE /\ Cardinality(recs) = 1
                        /\ LineSetsRecorded(key, o, w)
                        /\ Cardinality(ChangesOf("raw_section", key, "line_count")) = 1
                        /\ \A ch \in RawFieldChanges(key, "line_count") :
                              ch.old = Len(o) /\ ch.new = Len(w)

\* C11: the same, with the line counts recorded only when the two blocks
\* have different numbers of lines
C11_RawModified ==
    pc = "diffed" =>
        \A n \in DOMAIN old.raw_sections :
            LET key == old.raw_sections[n].k
                o == old.raw_sections[n].v
            IN Has(new.raw_sections, key) =>
                LET w == Get(new.raw_sections, key)
                    recs == RecordsOf(raw.modified, "raw_section", key)
                IN IF SeqToSet(o) = SeqToSet(w) THEN recs = {}
                   ELSE /\ Cardinality(recs) = 1
                        /\ LineSetsRecorded(key, o, w)
                        /\ Cardinality(ChangesOf("raw_section", key, "line_count"))
                              = (IF Len(o) = Len(w) THEN 0 ELSE 1)
                        /\ \A ch \in RawFieldChanges(key, "line_count") :
                              ch.old = Len(o) /\ ch.new = Len(w)

\* a block whose line set changed and whose number of lines did not, and a
\* block with the same line set and another number of lines
C11_Witness ==
    /\ pc = "diffed"
    /\ \E n \in DOMAIN old.raw_sections :
          LET key == old.raw_sections[n].k
              o == old.raw_sections[n].v
          IN /\ Has(new.raw_sections, key)
             /\ SeqToSet(o) # SeqToSet(Get(new.raw_sections, key))
             /\ Len(o) = Len(Get(new.raw_sections, key))
             /\ Cardinality(RecordsOf(raw.modified, "raw_section", key)) = 1
    /\ \E n \in DOMAIN old.raw_sections :
          LET key == old.raw_sections[n].k
              o == old.raw_sections[n].v
          IN /\ Has(new.raw_sections, key)
             /\ SeqToSet(o) = SeqToSet(Get(new.raw_sections, key))
             /\ Len(o) # Len(Get(new.raw_sections, key))

\* C12: diff_models and aggregate_diff leave the two snapshots as they were:
\* every collection and field of old and new is the same after each call
C12_InputsUnchanged ==
    [][ (pc' # pc /\ pc' \in {"diffed", "aggregated"}) => (old' = old /\ new' = new) ]_vars

\* both calls have run on snapshots with raw blocks, and found differences
C12_Witness ==
    /\ pc = "aggregated"
    /\ old.raw_sections # <<>> /\ new.raw_sections # <<>>
    /\ raw.modified # <<>>
    /\ agg.other_changes # <<>>

\* both snapshots went through attach_story_and_grid_tags
BothTagged == pc \in {"tagged", "diffed", "aggregated"}
Snapshots == {old, new}

\* the positions of the stories at minimal absolute distance from z
NearestStories(z, stories) ==
    { i \in DOMAIN stories :
        \A k \in DOMAIN stories :
            FLe(AbsDiff(z, stories[i].v.elevation), AbsDiff(z, stories[k].v.elevation)) }

\* C13: after tagging a model with at least one story, every joint's story
\* is the name of a story at minimal absolute distance from the joint's z,
\* the first of them in iteration order, and is never None
C13_NearestStory ==
    BothTagged =>
        \A m \in Snapshots :
            Len(m.stories) >= 1 =>
                \A j \in DOMAIN m.joints :
                    LET joint == m.joints[j].v
                        near == NearestStories(joint.z, m.stories)
                    IN /\ ~IsNone(joint.story)
                       /\ \E i \in near :
                             /\ joint.story = Str(m.stories[i].k)
                             /\ \A k \in near : i <= k

\* the positions of the grid lines of a direction
LinesOf(m, direction) == { i \in DOMAIN m.grids : m.grids[i].direction = direction }
\* those of them within coord_tol of a coordinate
LinesWithinTol(m, direction, coord) ==
    { i \in LinesOf(m, direction) :
        FLe(AbsDiff(coord, m.grids[i].coord), Num(coord_tol)) }
\* the grid tag of a joint is as stated for one axis
GridTagAsStated(m, direction, coord, tag) ==
    IF LinesWithinTol(m, direction, coord) = {}
    THEN IsNone(tag)
    ELSE \E i \in LinesWithinTol(m, direction, coord) :
            /\ tag = Str(m.grids[i].name)
            /\ \A k \in LinesOf(m, direction) :
                  FLe(AbsDiff(coord, m.grids[i].coord), AbsDiff(coord, m.grids[k].coord))

\* C14: after tagging, a joint's grid_x (grid_y) is the name of the nearest
\* grid line of direction X (Y) when that line lies within coord_tol of the
\* joint's x (y), and None when no line of that direction lies within
\* coord_tol; the lines of the other direction have no part in it
C14_NearestGridLine ==
    BothTagged =>
        \A m \in Snapshots :
            \A j \in DOMAIN m.joints :
                LET joint == m.joints[j].v
                IN /\ GridTagAsStated(m, "X", joint.x, joint.grid_x)
                   /\ GridTagAsStated(m, "Y", joint.y, joint.grid_y)

\* a tagged snapshot with a joint exactly coord_tol away from two X lines and
\* tagged with one of them, a joint beyond coord_tol from the only Y line near
\* it, and a joint whose x is the coordinate of a Y line and of no X line
C14_Witness ==
    /\ BothTagged
    /\ \E j \in DOMAIN new.joints :
          LET joint == new.joints[j].v
          IN /\ Truthy(joint.grid_x)
             /\ Cardinality(LinesWithinTol(new, "X", joint.x)) = 2
             /\ \A i \in LinesWithinTol(new, "X", joint.x) :
                   AbsDiff(joint.x, new.grids[i].coord) = Num(coord_tol)
    /\ \E j \in DOMAIN new.joints :
          LET joint == new.joints[j].v
          IN /\ IsNone(joint.grid_y)
             /\ \E i \in LinesOf(new, "Y") :
                   AbsDiff(joint.y, new.grids[i].coord) = Num(coord_tol + 1)
    /\ \E j \in DOMAIN new.joints :
          LET joint == new.joints[j].v
          IN /\ IsNone(joint.grid_x)
             /\ \E i \in LinesOf(new, "Y") : new.grids[i].coord = joint.x

\* the elevation of a story of the model, by its name
ElevationOf(m, story) == Get(m.stories, story.str).elevation

\* C15: after tagging, a frame whose two endpoint joints both exist and both
\* have a story has, as story and as location.story, that story when the two
\* are the same and the one of lower elevation when they differ; a frame with
\* a missing endpoint joint keeps story None and an empty LocationInfo
C15_FrameStory ==
    BothTagged =>
        \A m \in Snapshots :
            \A f \in DOMAIN m.frames :
                LET frame == m.frames[f].v
                    joint_i == GetOrNone(m.joints, frame.joint_i)
                    joint_j == GetOrNone(m.joints, frame.joint_j)
                IN IF IsNone(joint_i) \/ IsNone(joint_j)
                   THEN IsNone(frame.story) /\ frame.location = LocationInfo
                   ELSE (Truthy(joint_i.story) /\ Truthy(joint_j.story)) =>
                        /\ frame.location.story = frame.story
                        /\ IF joint_i.story = joint_j.story
                           THEN frame.story = joint_i.story
                           ELSE /\ frame.story \in {joint_i.story, joint_j.story}
                                /\ FLe(ElevationOf(m, frame.story), ElevationOf(m, joint_i.story))
                                /\ FLe(ElevationOf(m, frame.story), ElevationOf(m, joint_j.story))

\* a tagged snapshot with a frame between two joints of one story, a frame
\* whose second joint is on the lower story, a frame whose first joint is on
\* the lower story, and a frame with an endpoint that is no joint
C15_Witness ==
    /\ BothTagged
    /\ \E f \in DOMAIN new.frames :
          LET frame == new.frames[f].v
          IN /\ Has(new.joints, frame.joint_i) /\ Has(new.joints, frame.joint_j)
             /\ frame.joint_i # frame.joint_j
             /\ Truthy(frame.story)
             /\ Get(new.joints, frame.joint_i).story = frame.story
             /\ Get(new.joints, frame.joint_j).story = frame.story
    /\ \E f \in DOMAIN new.frames :
          LET frame == new.frames[f].v
          IN /\ Has(new.joints, frame.joint_i) /\ Has(new.joints, frame.joint_j)
             /\ Truthy(frame.story)
             /\ Truthy(Get(new.joints, frame.joint_i).story)
             /\ Get(new.joints, frame.joint_i).story # frame.story
             /\ Get(new.joints, frame.joint_j).story = frame.story
    /\ \E f \in DOMAIN new.frames :
          LET frame == new.frames[f].v
          IN /\ Has(new.joints, frame.joint_i) /\ Has(new.joints, frame.joint_j)
             /\ Truthy(frame.story)
             /\ Truthy(Get(new.joints, frame.joint_j).story)
             /\ Get(new.joints, frame.joint_j).story # frame.story
             /\ Get(new.joints, frame.joint_i).story = frame.story
    /\ \E f \in DOMAIN new.frames :
          /\ ~Has(new.joints, new.frames[f].v.joint_j)
          /\ IsNone(new.frames[f].v.story)

\* one axis of a frame's location against the grid tags of its two joints
AxisAsStated(tag_i, tag_j, tag, span) ==
    /\ (Truthy(tag_i) /\ Truthy(tag_j) /\ tag_i = tag_j) =>
          (tag = tag_i /\ IsNone(span))
    /\ (Truthy(tag_i) /\ Truthy(tag_j) /\ tag_i # tag_j) =>
          (span = Pair(tag_i.str, tag_j.str) /\ IsNone(tag))
    /\ ~(Truthy(tag) /\ ~IsNone(span))

\* C16: after tagging, for every frame with both endpoint joints and for each
\* axis: when both endpoints carry the same grid tag the frame's grid tag is
\* that tag and its span is unset; when both carry a tag and the two differ
\* the span is the pair (tag of joint i, tag of joint j) and the grid tag is
\* unset; tag and span are never both set on one axis
C16_GridTagOrSpan ==
    BothTagged =>
        \A m \in Snapshots :
            \A f \in DOMAIN m.frames :
                LET frame == m.frames[f].v
                    joint_i == GetOrNone(m.joints, frame.joint_i)
                    joint_j == GetOrNone(m.joints, frame.joint_j)
                    loc == frame.location
                IN IF IsNone(joint_i) \/ IsNone(joint_j)
                   THEN /\ ~(Truthy(loc.grid_x) /\ ~IsNone(loc.grid_x_span))
                        /\ ~(Truthy(loc.grid_y) /\ ~IsNone(loc.grid_y_span))
                   ELSE /\ AxisAsStated(joint_i.grid_x, joint_j.grid_x,
                                        loc.grid_x, loc.grid_x_span)
                        /\ AxisAsStated(joint_i.grid_y, joint_j.grid_y,
                                        loc.grid_y, loc.grid_y_span)

\* a tagged snapshot with a frame whose joints share their X tag, a frame
\* whose joints carry different X tags, and a frame one joint of which
\* carries no X tag
C16_Witness ==
    /\ BothTagged
    /\ \E f \in DOMAIN new.frames :
          LET frame == new.frames[f].v
          IN /\ Has(new.joints, frame.joint_i) /\ Has(new.joints, frame.joint_j)
             /\ frame.joint_i # frame.joint_j
             /\ Truthy(frame.location.grid_x)
             /\ Get(new.joints, frame.joint_i).grid_x = frame.location.grid_x
             /\ Get(new.joints, frame.joint_j).grid_x = frame.location.grid_x
    /\ \E f \in DOMAIN new.frames :
          LET frame == new.frames[f].v
          IN /\ Has(new.joints, frame.joint_i) /\ Has(new.joints, frame.joint_j)
             /\ Truthy(Get(new.joints, frame.joint_i).grid_x)
             /\ Truthy(Get(new.joints, frame.joint_j).grid_x)
             /\ Get(new.joints, frame.joint_i).grid_x # Get(new.joints, frame.joint_j).grid_x
             /\ ~IsNone(frame.location.grid_x_span)
             /\ ~IsNone(frame.location.grid_y_span)
    /\ \E f \in DOMAIN new.frames :
          LET frame == new.frames[f].v
          IN /\ Has(new.joints, frame.joint_i) /\ Has(new.joints, frame.joint_j)
             /\ Truthy(Get(new.joints, frame.joint_i).grid_x)
             /\ IsNone(Get(new.joints, frame.joint_j).grid_x)
             /\ IsNone(frame.location.grid_x) /\ IsNone(frame.location.grid_x_span)

\* the roles of the keywords a section name contains
KeywordRoles(name) ==
    (IF KeywordIn("COLUMN", name) \/ KeywordIn("COL", name) THEN {Str("column")} ELSE {})
    \cup (IF KeywordIn("BEAM", name) \/ KeywordIn("BM", name) THEN {Str("beam")} ELSE {})
    \cup (IF KeywordIn("BRACE", name) THEN {Str("brace")} ELSE {})

\* C18: whenever the name of a frame's resolved section contains one of the
\* keywords COL/COLUMN, BEAM/BM or BRACE, the frame's object_type after
\* tagging is the role of that keyword, whatever the geometry gives
C18_KeywordWins ==
    BothTagged =>
        \A m \in Snapshots :
            \A f \in DOMAIN m.frames :
                LET frame == m.frames[f].v
                    section == GetOrNone(m.frame_sections, frame.section)
                IN (~IsNone(section) /\ KeywordRoles(section.name) # {}) =>
                       frame.object_type \in KeywordRoles(section.name)

RECURSIVE SumOfCounts(_, _)
\* the sum of the counts of the first n clusters
SumOfCounts(clusters, n) ==
    IF n = 0 THEN 0 ELSE SumOfCounts(clusters, n - 1) + clusters[n].count

\* the modified records of type frame or frame_assignment with a section change
SectionChangeRecords ==
    { i \in DOMAIN raw.modified :
        /\ raw.modified[i].object_type \in {"frame", "frame_assignment"}
        /\ ~IsNone(SectionChange(raw.modified[i].changes)) }

\* C19: every modified record of type frame or frame_assignment with a
\* section change contributes to exactly one cluster, so the counts of the
\* clusters add up to the number of these records; a record whose frame is
\* not found in new is not dropped
C19_NoRecordDropped ==
    pc = "aggregated" =>
        SumOfCounts(agg.section_swaps, Len(agg.section_swaps))
            = Cardinality(SectionChangeRecords)

\* a modified record taken up by the section-swap, load-combo or material
\* clustering or by one of the named buckets of other_changes
Consumed(mod) ==
    \/ /\ mod.object_type \in {"frame", "frame_assignment"}
       /\ ~IsNone(SectionChange(mod.changes))
    \/ mod.object_type \in {"load_combo", "material"}
    \/ mod.object_type \in {"frame_section", "load_pattern", "load_case"}
    \/ mod.object_type = "raw_section" /\ IsAssignBlock(mod.key)

\* an entry of other_changes that names the record and lists its changed fields
OpaqueRecordOf(entry, mod) ==
    /\ "fields_changed" \in DOMAIN entry
    /\ entry.fields_changed = FieldNames(mod.changes, "")
    /\ \E f \in DOMAIN entry \ {"type", "fields_changed"} : entry[f] = mod.key

\* C20: every modified record of the raw diff that is not consumed by the
\* section-swap, load-combo or material clustering or by a named bucket
\* (a modified joint, story, area assignment, or a frame change without a
\* section change) appears in other_changes as an opaque record listing the
\* names of its changed fields
C20_OthersPassedThrough ==
    pc = "aggregated" =>
        \A i \in DOMAIN raw.modified :
            ~Consumed(raw.modified[i]) =>
                \E k \in DOMAIN agg.other_changes :
                    OpaqueRecordOf(agg.other_changes[k], raw.modified[i])

\* the frame of new a swap record is about
MemberFrame(mod) ==
    Get(new.frames, IF mod.object_type = "frame_assignment"
                    THEN literal_eval(mod.key)[1] ELSE mod.key)
\* the frames of the records that make up a cluster
MemberFrames(cluster) ==
    { MemberFrame(raw.modified[i]) :
        i \in { j \in DOMAIN raw.modified :
                  SwapTuple(raw.modified[j]) = ClusterTuple(cluster) } }
\* the final grid list of a cluster on one axis, empty without a grid region
GridList(cluster, axis) ==
    IF IsNone(cluster.grid_region) THEN <<>> ELSE cluster.grid_region[axis]

\* C21: for every section-swap cluster and for each axis on its own, the
\* cluster's final grid list is the sorted list of the distinct grid tags
\* that its member frames have on that axis
C21_GridRegionPerAxis ==
    pc = "aggregated" =>
        \A c \in DOMAIN agg.section_swaps :
            LET cluster == agg.section_swaps[c]
                frames == MemberFrames(cluster)
            IN /\ GridList(cluster, "grid_x") =
                    Sorted({ f.location.grid_x.str :
                               f \in { g \in frames : Truthy(g.location.grid_x) } })
               /\ GridList(cluster, "grid_y") =
                    Sorted({ f.location.grid_y.str :
                               f \in { g \in frames : Truthy(g.location.grid_y) } })

\* the load_combo records of a list of the raw diff
ComboRecords(recs) == { i \in DOMAIN recs : recs[i].object_type = "load_combo" }
\* the LoadComboChange entries of one name and change type
ComboChanges(name, change_type) ==
    { k \in DOMAIN agg.load_combo_changes :
        /\ agg.load_combo_changes[k].name = name
        /\ agg.load_combo_changes[k].change_type = change_type }

\* C22: _aggregate_load_combo_changes gives exactly one LoadComboChange per
\* load_combo record of the raw diff: added with the term list of the combo
\* in new and no old_terms, removed with the term list in old and no
\* new_terms, modified with both
C22_OneChangePerCombo ==
    pc = "aggregated" =>
        /\ Len(agg.load_combo_changes) =
              Cardinality(ComboRecords(raw.added)) + Cardinality(ComboRecords(raw.removed))
                + Cardinality(ComboRecords(raw.modified))
        /\ \A i \in ComboRecords(raw.added) :
              /\ Cardinality(ComboChanges(raw.added[i].key, "added")) = 1
              /\ \A k \in ComboChanges(raw.added[i].key, "added") :
                    /\ agg.load_combo_changes[k].new_terms =
                          Get(new.load_combos, raw.added[i].key).terms
                    /\ IsNone(agg.load_combo_changes[k].old_terms)
        /\ \A i \in ComboRecords(raw.removed) :
              /\ Cardinality(ComboChanges(raw.removed[i].key, "removed")) = 1
              /\ \A k \in ComboChanges(raw.removed[i].key, "removed") :
                    /\ agg.load_combo_changes[k].old_terms =
                          Get(old.load_combos, raw.removed[i].key).terms
                    /\ IsNone(agg.load_combo_changes[k].new_terms)
        /\ \A i \in ComboRecords(raw.modified) :
              /\ Cardinality(ComboChanges(raw.modified[i].key, "modified")) = 1
              /\ \A k \in ComboChanges(raw.modified[i].key, "modified") :
                    /\ agg.load_combo_changes[k].old_terms =
                          Get(old.load_combos, raw.modified[i].key).terms
                    /\ agg.load_combo_changes[k].new_terms =
                          Get(new.load_combos, raw.modified[i].key).terms

\* an aggregated diff with a combo that was added and a combo of two terms
\* that was modified, each with its LoadComboChange
C22_Witness ==
    /\ pc = "aggregated"
    /\ ComboRecords(raw.added) # {}
    /\ \E i \in ComboRecords(raw.modified) :
          /\ Len(Get(old.load_combos, raw.modified[i].key).terms) = 2
          /\ ComboChanges(raw.modified[i].key, "modified") # {}
    /\ Len(agg.load_combo_changes) = 2

\* C23: diff_models is called only after attach_story_and_grid_tags has run
\* to completion on the old and on the new snapshot: the snapshots it reads
\* went through a pass each and a further pass would change nothing in them
C23_TaggedBeforeDiff ==
    [][ raw' # raw =>
          /\ tagCount.old >= 1 /\ tagCount.new >= 1
          /\ old = attach_story_and_grid_tags(old)
          /\ new = attach_story_and_grid_tags(new)
          /\ raw' = diff_models(old, new) ]_vars

\* a diff was computed, of snapshots whose frames all have their object_type
C23_Witness ==
    /\ pc = "diffed"
    /\ raw # None
    /\ old.frames # <<>> /\ new.frames # <<>>
    /\ \A i \in DOMAIN old.frames : Truthy(old.frames[i].v.object_type)
    /\ \A i \in DOMAIN new.frames : Truthy(new.frames[i].v.object_type)
    /\ \E i \in DOMAIN new.joints : Truthy(new.joints[i].v.story)

\* the load combinations of both snapshots
CombosOfBoth == Keys(old.load_combos) \cap Keys(new.load_combos)

\* the terms of new are those of old in the same order, with a factor changed
\* by no more than the tolerance of an unnamed field
FactorWithinTol(o, w) ==
    /\ o.terms # w.terms
    /\ Len(o.terms) = Len(w.terms)
    /\ \A t \in DOMAIN o.terms :
          /\ o.terms[t].name = w.terms[t].name
          /\ FLe(AbsDiff(o.terms[t].factor, w.terms[t].factor), Num(TolOf("terms")))

\* the terms of new are those of old in another order
Reordered(o, w) == o.terms # w.terms /\ SeqToSet(o.terms) = SeqToSet(w.terms)

\* C29: the tolerance is applied to a field only when its old and new value
\* are both numbers; the terms of a load combination are compared as lists, by
\* equality, so a combination of both snapshots whose terms differ in any way,
\* be it a factor changed within the tolerance or the order of the terms, has
\* one Modified load_combo record with one 'terms' change holding the old and
\* the new list, while a load pattern whose self-weight multiplier changed
\* within the tolerance has no change of that field.
C29_TermsComparedExactly ==
    pc \in {"diffed", "aggregated"} =>
        /\ \A key \in CombosOfBoth :
              LET o == Get(old.load_combos, key)
                  w == Get(new.load_combos, key)
                  terms == ChangesOf("load_combo", key, "terms")
              IN IF o.terms = w.terms THEN terms = {}
                 ELSE /\ Cardinality(RecordsOf(raw.modified, "load_combo", key)) = 1
                      /\ Cardinality(terms) = 1
                      /\ \A s \in terms :
                            /\ raw.modified[s[1]].changes[s[2]].old = o.terms
                            /\ raw.modified[s[1]].changes[s[2]].new = w.terms
        /\ \A key \in Keys(old.load_patterns) \cap Keys(new.load_patterns) :
              LET o == Get(old.load_patterns, key).self_weight_multiplier
                  w == Get(new.load_patterns, key).self_weight_multiplier
              IN FLe(AbsDiff(o, w), Num(TolOf("self_weight_multiplier")))
                    => ChangesOf("load_pattern", key, "self_weight_multiplier") = {}

\* a combination with a factor changed within the tolerance is reported, next
\* to a load pattern whose multiplier changed as much and is not
C29_Witness ==
    /\ pc = "diffed"
    /\ \E key \in CombosOfBoth :
          /\ FactorWithinTol(Get(old.load_combos, key), Get(new.load_combos, key))
          /\ ChangesOf("load_combo", key, "terms") # {}
    /\ \E key \in Keys(old.load_patterns) \cap Keys(new.load_patterns) :
          /\ Get(old.load_patterns, key).self_weight_multiplier
                # Get(new.load_patterns, key).self_weight_multiplier
          /\ RecordsOf(raw.modified, "load_pattern", key) = {}

\* a combination whose terms are only reordered is reported
ReorderedReported ==
    /\ pc = "diffed"
    /\ \E key \in CombosOfBoth :
          /\ Reordered(Get(old.load_combos, key), Get(new.load_combos, key))
          /\ ChangesOf("load_combo", key, "terms") # {}

-----------------------------------------------------------------------------
(* parse_sections_from_text(text), one action per iteration of its loop *)

MaxLines == 4     \* lines of a segmenter input

\* the lines the inputs are made of
LineAlphabet ==
    { <<" ">>,
      <<"$", " ", "A">>,
      <<" ", "$", "A", " ">>,
      \* a header with a run of two blanks inside
      <<"$", "A", " ", " ", "B">>,
      <<"x">>,
      <<" ", "y", " ">>,
      <<"$", " ", "F", "i", "l", "e", " ", "z">> }

RECURSIVE JoinLines(_)
\* "\n".join(lines)
JoinLines(ls) ==
    IF ls = <<>> THEN <<>>
    ELSE IF Len(ls) = 1 THEN ls[1]
    ELSE ls[1] \o <<"\n">> \o JoinLines(Tail(ls))

Texts == { JoinLines(ls) : ls \in UNION { [1..n -> LineAlphabet] : n \in 0..MaxLines } }

PipeIdle ==
    /\ old = EtabsModel /\ new = EtabsModel
    /\ tagCount = [old |-> 0, new |-> 0] /\ raw = None /\ agg = None

SegInit ==
    /\ text \in Texts
    /\ cursor = 1
    /\ sections = <<>>
    /\ current_section = None
    /\ current_lines = <<>>
    /\ pc = "seg_loop"
    /\ PipeIdle
    /\ GeoIdle
    /\ ParseIdle
    /\ WatchIdle

\* the line of this iteration, stripped
SegLine == strip(splitlines(text)[cursor])
SegInLoop == pc = "seg_loop" /\ cursor <= Len(splitlines(text))

\* a block that is declared again keeps its first lines
SaveCurrentFirstWins ==
    IF IsNone(current_section) \/ Has(sections, current_section.str) THEN sections
    ELSE Put(sections, current_section.str, current_lines)

\* sections[current_section] = current_lines, when there is a current section
SaveCurrent ==
    IF IsNone(current_section) THEN sections
    ELSE Put(sections, current_section.str, current_lines)

\* if not line: continue
SegBlank ==
    /\ SegInLoop
    /\ SegLine = <<>>
    /\ cursor' = cursor + 1
    /\ UNCHANGED <<text, sections, current_section, current_lines, pc>>
    /\ UNCHANGED <<pipeVars, geoVars, parseVars, watchVars>>

\* a header "$ File ...": the block is named File and starts with the header text
SegFileHeader ==
    /\ SegInLoop
    /\ startswith(SegLine, <<"$">>)
    /\ startswith(SegLine, FilePrefix)
    /\ sections' = SaveCurrent
    /\ current_section' = Str(<<"F", "i", "l", "e">>)
    /\ current_lines' = <<strip(Tail(SegLine))>>
    /\ cursor' = cursor + 1
    /\ UNCHANGED <<text, pc>>
    /\ UNCHANGED <<pipeVars, geoVars, parseVars, watchVars>>

\* any other header: a new, empty block named by the rest of the line
SegHeader ==
    /\ SegInLoop
    /\ startswith(SegLine, <<"$">>)
    /\ ~startswith(SegLine, FilePrefix)
    /\ sections' = SaveCurrent
    /\ current_section' = Str(strip(Tail(SegLine)))
    /\ current_lines' = <<>>
    /\ cursor' = cursor + 1
    /\ UNCHANGED <<text, pc>>
    /\ UNCHANGED <<pipeVars, geoVars, parseVars, watchVars>>

\* a content line: kept when a block is open
SegContent ==
    /\ SegInLoop
    /\ SegLine # <<>>
    /\ ~startswith(SegLine, <<"$">>)
    /\ current_lines' = IF IsNone(current_section) THEN current_lines
                        ELSE Append(current_lines, SegLine)
    /\ cursor' = cursor + 1
    /\ UNCHANGED <<text, sections, current_section, pc>>
    /\ UNCHANGED <<pipeVars, geoVars, parseVars, watchVars>>

\* after the loop: the last block is saved and sections is returned
SegReturn ==
    /\ pc = "seg_loop"
    /\ cursor > Len(splitlines(text))
    /\ sections' = SaveCurrent
    /\ pc' = "seg_done"
    /\ UNCHANGED <<text, cursor, current_section, current_lines>>
    /\ UNCHANGED <<pipeVars, geoVars, parseVars, watchVars>>

SegNext == SegBlank \/ SegFileHeader \/ SegHeader \/ SegContent \/ SegReturn

SegSpec == SegInit /\ [][SegNext]_vars

-----------------------------------------------------------------------------
(* Properties of parse_sections_from_text *)

\* a stripped line is a header
IsHeader(l) == startswith(l, <<"$">>)
\* the stripped, non-blank lines of the text, in order
ContentLines ==
    LET all == splitlines(text)
        NonBlank(l) == l # <<>>
    IN SelectSeq([i \in DOMAIN all |-> strip(all[i])], NonBlank)
\* the positions of the headers
HeaderAt(ls) == { i \in DOMAIN ls : IsHeader(ls[i]) }
\* the lines that follow the header at i, up to the next header
Following(ls, i) ==
    LET later == { j \in HeaderAt(ls) : j > i }
        stop == IF later = {} THEN Len(ls) + 1
                ELSE CHOOSE j \in later : \A k \in later : j <= k
    IN SubSeq(ls, i + 1, stop - 1)
\* the text of a header after its marker
HeaderText(h) == strip(Tail(h))
FileName == <<"F", "i", "l", "e">>
\* the block a header opens, and the lines the block starts with
BlockName(h) == IF startswith(h, FilePrefix) THEN FileName ELSE HeaderText(h)
BlockLead(h) == IF startswith(h, FilePrefix) THEN <<HeaderText(h)>> ELSE <<>>
\* the dict has each key once
IsMapping(d) == \A i, j \in DOMAIN d : d[i].k = d[j].k => i = j

\* C8, as stated: the mapping has exactly the header texts as block names,
\* each with the stripped non-blank lines that follow its last header up to the
\* next header, in order; lines before the first header are in no block
C8_BlocksAsStated ==
    pc = "seg_done" =>
        LET ls == ContentLines
        IN /\ IsMapping(sections)
           /\ Keys(sections) = { HeaderText(ls[i]) : i \in HeaderAt(ls) }
           /\ \A i \in HeaderAt(ls) :
                 (\A j \in HeaderAt(ls) : HeaderText(ls[j]) = HeaderText(ls[i]) => j <= i)
                    => Get(sections, HeaderText(ls[i])) = Following(ls, i)

\* C8: the same, with the File headers apart: a header "$ File ..." opens the
\* block named File, whose lines are the header's text after the marker and
\* then the lines that follow; the last header of a block name wins
C8_Blocks ==
    pc = "seg_done" =>
        LET ls == ContentLines
        IN /\ IsMapping(sections)
           /\ Keys(sections) = { BlockName(ls[i]) : i \in HeaderAt(ls) }
           /\ \A i \in HeaderAt(ls) :
                 (\A j \in HeaderAt(ls) : BlockName(ls[j]) = BlockName(ls[i]) => j <= i)
                    => Get(sections, BlockName(ls[i]))
                          = BlockLead(ls[i]) \o Following(ls, i)

\* a text that starts with a line outside every block, with a block declared
\* twice whose first declaration had lines, and with a File header
C8_Witness ==
    /\ pc = "seg_done"
    /\ LET ls == ContentLines
       IN /\ ls # <<>> /\ ~IsHeader(ls[1])
          /\ \E i, j \in HeaderAt(ls) :
                /\ i < j
                /\ BlockName(ls[i]) = BlockName(ls[j])
                /\ Following(ls, i) # <<>>
                /\ Get(sections, BlockName(ls[i])) # BlockLead(ls[i]) \o Following(ls, i)
    /\ Has(sections, FileName)


RECURSIVE Collapsed(_)
\* a name with every run of whitespace replaced by one blank
Collapsed(name) ==
    IF name = <<>> THEN <<>>
    ELSE IF name[1] \in Whitespace
         THEN <<" ">> \o Collapsed(lstrip(name))
         ELSE <<name[1]>> \o Collapsed(Tail(name))

\* C24: the block name of a header line is the text after the marker,
\* stripped and with every internal run of whitespace collapsed to one
\* separator, so headers that differ in the amount of internal whitespace
\* only open the same block
C24_NamesCollapsed ==
    pc = "seg_done" =>
        LET ls == ContentLines
        IN Keys(sections) = { Collapsed(BlockName(ls[i])) : i \in HeaderAt(ls) }

-----------------------------------------------------------------------------
(* classify_frame_object from the length on.  geom describes one frame by  *)
(* the floats of lines 144 and 151-153: its length and the ratios of its   *)
(* deltas to its length.  geom.length is [num |-> n] with n in units of    *)
(* 1e-7 (so 1e-6 is 10) or NaN; the ratios are in thousandths (so 0.7 is   *)
(* 700) or NaN, and None for a frame of length 0, which has none.          *)

\* the inclusive comparisons in the place of the strict ones
OrientationTypeInclusive(dx_norm, dy_norm, dz_norm) ==
    IF FLe(Num(700), dz_norm) THEN "column"
    ELSE IF FLe(dz_norm, Num(300)) /\ (FLe(Num(700), dx_norm) \/ FLe(Num(700), dy_norm))
         THEN "beam"
    ELSE "brace"

\* lines 155-164: the class of the orientation
OrientationType(dx_norm, dy_norm, dz_norm) ==
    IF FLt(Num(700), dz_norm) THEN "column"
    ELSE IF FLt(dz_norm, Num(300)) /\ (FLt(Num(700), dx_norm) \/ FLt(Num(700), dy_norm))
         THEN "beam"
    ELSE "brace"

\* lines 146-148: length < 1e-6
IsShort(length) == FLt(length, Num(10))

\* lines 151-153, d / length: a normalised delta the division can give
NormGrid == {0, 141, 299, 300, 301, 400, 577, 640, 699, 700, 701, 714, 768, 954, 1000}
\* the three normalised deltas of one frame: their squares add up to 1,
\* up to the rounding to thousandths
NormTriples ==
    { t \in NormGrid \X NormGrid \X NormGrid :
        LET sq == t[1] * t[1] + t[2] * t[2] + t[3] * t[3]
        IN sq >= 998000 /\ sq <= 1002000 }

\* line 144: lengths below, at and above 1e-6
Lengths == {1, 5, 9, 10, 11, 1200000}

Measured(length, dx_norm, dy_norm, dz_norm) ==
    [length |-> length, dx_norm |-> dx_norm, dy_norm |-> dy_norm,
     dz_norm |-> dz_norm, object_type |-> None]

GeoInputs ==
    { Measured(Num(0), None, None, None) }
    \cup { Measured(Num(l), Num(t[1]), Num(t[2]), Num(t[3])) :
             l \in Lengths, t \in NormTriples }
    \* a NaN coordinate: the length and the normalised deltas are NaN
    \cup { Measured(NaN, NaN, NaN, NaN) }

GeoInit ==
    /\ geom \in GeoInputs
    /\ pc = "measured"
    /\ PipeIdle
    /\ SegIdle
    /\ ParseIdle
    /\ WatchIdle

\* lines 146-164 of classify_frame_object
Classify ==
    /\ pc = "measured"
    /\ geom' = [geom EXCEPT !.object_type =
                  IF IsShort(geom.length) THEN Str("frame")
                  ELSE Str(OrientationType(geom.dx_norm, geom.dy_norm, geom.dz_norm))]
    /\ pc' = "classified"
    /\ UNCHANGED <<pipeVars, segVars, parseVars, watchVars>>

GeoNext == Classify

GeoSpec == GeoInit /\ [][GeoNext]_vars

-----------------------------------------------------------------------------
(* Properties of the geometric classification *)

\* a float is a number above (below) a bound in thousandths
Above(v, bound) == ~IsNaN(v) /\ v.num > bound
Below(v, bound) == ~IsNaN(v) /\ v.num < bound

\* the class stated for a frame that is not generic
StatedOrientation(g) ==
    IF Above(g.dz_norm, 700) THEN "column"
    ELSE IF Below(g.dz_norm, 300) /\ (Above(g.dx_norm, 700) \/ Above(g.dy_norm, 700))
         THEN "beam"
    ELSE "brace"

\* the values exactly at 0.7 and 0.3 fall to the next case
BoundariesFallThrough(g) ==
    /\ g.dz_norm = Num(700) => g.object_type # Str("column")
    /\ g.dz_norm = Num(300) => g.object_type # Str("beam")
    /\ (g.dx_norm = Num(700) /\ ~Above(g.dy_norm, 700)) => g.object_type # Str("beam")
    /\ (g.dy_norm = Num(700) /\ ~Above(g.dx_norm, 700)) => g.object_type # Str("beam")

\* C17 as stated: a frame of length 0 is generic ('frame'); every other
\* frame is a column when dz/L > 0.7, else a beam when dz/L < 0.3 and
\* (dx/L > 0.7 or dy/L > 0.7), else a brace; the values exactly at 0.7 and
\* 0.3 fall to the next case
C17_ClassByZeroLength ==
    pc = "classified" =>
        IF geom.length = Num(0)
        THEN geom.object_type = Str("frame")
        ELSE /\ geom.object_type = Str(StatedOrientation(geom))
             /\ BoundariesFallThrough(geom)

\* C17: a frame of length below 1e-6 is generic ('frame'); every other frame
\* is a column when dz/L > 0.7, else a beam when dz/L < 0.3 and (dx/L > 0.7
\* or dy/L > 0.7), else a brace; the values exactly at 0.7 and 0.3 fall to
\* the next case
C17_ClassByLength ==
    pc = "classified" =>
        IF Below(geom.length, 10)
        THEN geom.object_type = Str("frame")
        ELSE /\ geom.object_type = Str(StatedOrientation(geom))
             /\ BoundariesFallThrough(geom)

\* a classified frame of a length between 0 and 1e-6 that is all vertical:
\* generic, and no column
C17_Witness ==
    /\ pc = "classified"
    /\ geom.length = Num(5)
    /\ geom.dz_norm = Num(1000)
    /\ geom.object_type = Str("frame")

-----------------------------------------------------------------------------
(* parser.py: the typed parsers and parse_et_file.                         *)
(* A line is the tuple of its whitespace-separated tokens, line.split();   *)
(* a token is [q |-> quoted, s |-> text], the text of a quoted token being *)
(* what stands between its quotes.  Names hold no blank, so a quoted       *)
(* string is one token.                                                     *)

W(s) == [q |-> FALSE, s |-> s]
Q(s) == [q |-> TRUE, s |-> s]

\* str.upper() on the words of the input lines; the others are upper case
Upper(s) == CASE s = "height" -> "HEIGHT"
              [] s = "line" -> "LINE"
              [] OTHER -> s

\* a in b for two words of the input lines
IsSubstring(a, b) == a = b \/ <<a, b>> \in { <<"S1", "S10">> }

\* float(s): thousandths, NaN, or ValueError
ValueError == [error |-> "ValueError"]
float(s) ==
    CASE s = "0" -> Num(0)
      [] s = "120" -> Num(120000)
      [] s = "144" -> Num(144000)
      [] s = "-10" -> Num(-10000)
      [] s = ".5" -> Num(500)
      [] s = "nan" -> NaN
      [] OTHER -> ValueError

\* the words [+-]?\d+\.?\d*[Ee]?[+-]?\d* matches whole
NumberPattern == {"0", "120", "144", "-10", "1e"}

\* re.search(r'"([^"]*)"', s): the first quoted string, or None
extract_quoted_string(line) ==
    IF \E i \in DOMAIN line : line[i].q
    THEN Str(line[CHOOSE i \in DOMAIN line :
                    line[i].q /\ \A j \in 1..(i - 1) : ~line[j].q].s)
    ELSE None

\* re.findall(r'"([^"]*)"', line)
RECURSIVE QuotedStrings(_)
QuotedStrings(line) ==
    IF line = <<>> THEN <<>>
    ELSE IF Head(line).q THEN <<Head(line).s>> \o QuotedStrings(Tail(line))
    ELSE QuotedStrings(Tail(line))

\* the places \bKEY\s+(number) matches, case ignored
KeyMatches(line, key) ==
    { i \in DOMAIN line :
        /\ ~line[i].q /\ Upper(line[i].s) = key
        /\ i + 1 \in DOMAIN line
        /\ ~line[i + 1].q /\ line[i + 1].s \in NumberPattern }

\* the float after the first match, None without a match or on ValueError
extract_numeric_value(line, key) ==
    LET m == KeyMatches(line, key)
    IN IF m = {} THEN None
       ELSE LET i == CHOOSE i \in m : \A j \in m : i <= j
                f == float(line[i + 1].s)
            IN IF f = ValueError THEN None ELSE f

\* story_name in line and "HEIGHT" in line.upper()
NamesHeightOf(line, story_name) ==
    /\ \E i \in DOMAIN line : IsSubstring(story_name, line[i].s)
    /\ \E i \in DOMAIN line : IsSubstring("HEIGHT", Upper(line[i].s))

RECURSIVE StoryLines(_, _)
\* the first loop of parse_story_data over the first n lines:
\* [elevation_map |-> dict, story_list |-> list]
StoryLines(lines, n) ==
    IF n = 0 THEN [elevation_map |-> <<>>, story_list |-> <<>>]
    ELSE LET acc == StoryLines(lines, n - 1)
             line == lines[n]
             story_name == extract_quoted_string(line)
             elevation == extract_numeric_value(line, "ELEV")
         IN IF line = <<>> \/ line[1] # W("STORY") THEN acc
            ELSE IF ~Truthy(story_name) THEN acc
            ELSE IF ~IsNone(elevation)
                 THEN [acc EXCEPT !.elevation_map = Put(@, story_name.str, elevation)]
                 ELSE [elevation_map |-> Put(acc.elevation_map, story_name.str, Num(0)),
                       story_list |-> Append(acc.story_list, story_name.str)]

\* if height: None and 0.0 are falsy
HeightGiven(height) == ~IsNone(height) /\ height # Num(0)

\* the lines whose height the inner loop of the second pass would take
HeightLines(lines, story_name) ==
    { i \in DOMAIN lines :
        /\ NamesHeightOf(lines[i], story_name)
        /\ HeightGiven(extract_numeric_value(lines[i], "HEIGHT")) }

RECURSIVE StoryHeights(_, _, _, _)
\* the second loop of parse_story_data over the last n names of story_list:
\* [current_elev |-> float, elevation_map |-> dict]
StoryHeights(lines, story_list, elevation_map, n) ==
    IF n = 0 THEN [current_elev |-> Num(0), elevation_map |-> elevation_map]
    ELSE LET acc == StoryHeights(lines, story_list, elevation_map, n - 1)
             story_name == story_list[Len(story_list) - n + 1]
             hl == HeightLines(lines, story_name)
         IN IF hl = {} THEN acc
            ELSE LET i == CHOOSE i \in hl : \A j \in hl : i <= j
                     height == extract_numeric_value(lines[i], "HEIGHT")
                     elev == Num(acc.current_elev.num + height.num)
                 IN [current_elev |-> elev,
                     elevation_map |-> Put(acc.elevation_map, story_name, elev)]

parse_story_data(lines) ==
    LET first == StoryLines(lines, Len(lines))
        em == StoryHeights(lines, first.story_list, first.elevation_map,
                           Len(first.story_list)).elevation_map
    IN [i \in DOMAIN em |->
          [k |-> em[i].k, v |-> [Story(em[i].k, 0) EXCEPT !.elevation = em[i].v]]]

RECURSIVE parse_joint_coordinates(_)
parse_joint_coordinates(lines) ==
    IF lines = <<>> THEN <<>>
    ELSE LET joints == parse_joint_coordinates(SubSeq(lines, 1, Len(lines) - 1))
             parts == lines[Len(lines)]
             joint_name == IF parts[1].q THEN extract_quoted_string(parts)
                           ELSE Str(parts[1].s)
             \* float() of a quoted token raises
             coord(i) == IF parts[i].q THEN ValueError ELSE float(parts[i].s)
         IN IF Len(parts) < 4 THEN joints
            ELSE IF ~Truthy(joint_name) THEN joints
            ELSE IF \E i \in 2..4 : coord(i) = ValueError THEN joints
            ELSE Put(joints, joint_name.str,
                     Joint(joint_name.str, coord(2), coord(3), coord(4)))

RECURSIVE parse_frame_objects(_)
\* the lines of the inputs in the traditional format hold no quoted token
parse_frame_objects(lines) ==
    IF lines = <<>> THEN <<>>
    ELSE LET frames == parse_frame_objects(SubSeq(lines, 1, Len(lines) - 1))
             parts == lines[Len(lines)]
             point_matches == QuotedStrings(parts)
             is_line == ~parts[1].q /\ Upper(parts[1].s) = "LINE"
             frame_name == IF is_line THEN extract_quoted_string(parts)
                           ELSE Str(parts[1].s)
             joint_i == IF is_line
                        THEN IF Len(point_matches) >= 2 THEN Str(point_matches[2])
                             ELSE None
                        ELSE Str(parts[2].s)
             joint_j == IF is_line
                        THEN IF Len(point_matches) > 2 THEN Str(point_matches[3])
                             ELSE IF Len(point_matches) = 2 THEN Str(point_matches[2])
                             ELSE None
                        ELSE Str(parts[3].s)
             section == IF ~is_line /\ Len(parts) >= 4 THEN parts[4].s ELSE "Unknown"
         IN IF Len(parts) < 3 THEN frames
            ELSE IF Truthy(frame_name) /\ Truthy(joint_i) /\ Truthy(joint_j)
                 THEN Put(frames, frame_name.str,
                          FrameObject(frame_name.str, joint_i.str, joint_j.str, section))
            ELSE frames

\* parse_et_file keeping in raw_sections only the blocks no typed parser reads
parse_et_file_unknown_raw(secs) ==
    LET typed == { "STORIES - IN SEQUENCE FROM TOP", "STORY DATA",
                   "JOINT COORDINATES", "POINT COORDINATES",
                   "FRAME OBJECTS", "LINE CONNECTIVITIES" }
    IN [EtabsModel EXCEPT
           !.stories =
               IF Has(secs, "STORIES - IN SEQUENCE FROM TOP")
               THEN parse_story_data(Get(secs, "STORIES - IN SEQUENCE FROM TOP"))
               ELSE IF Has(secs, "STORY DATA")
                    THEN parse_story_data(Get(secs, "STORY DATA"))
               ELSE <<>>,
           !.joints =
               IF Has(secs, "JOINT COORDINATES")
               THEN parse_joint_coordinates(Get(secs, "JOINT COORDINATES"))
               ELSE IF Has(secs, "POINT COORDINATES")
                    THEN parse_joint_coordinates(Get(secs, "POINT COORDINATES"))
               ELSE <<>>,
           !.frames =
               IF Has(secs, "FRAME OBJECTS")
               THEN parse_frame_objects(Get(secs, "FRAME OBJECTS"))
               ELSE IF Has(secs, "LINE CONNECTIVITIES")
                    THEN parse_frame_objects(Get(secs, "LINE CONNECTIVITIES"))
               ELSE <<>>,
           !.raw_sections = SelectSeq(secs, LAMBDA e : e.k \notin typed)]

\* parse_et_file from the dict of parse_sections_from_text on; the inputs
\* hold no block of the other typed parsers
parse_et_file(secs) ==
    [EtabsModel EXCEPT
        !.stories =
            IF Has(secs, "STORIES - IN SEQUENCE FROM TOP")
            THEN parse_story_data(Get(secs, "STORIES - IN SEQUENCE FROM TOP"))
            ELSE IF Has(secs, "STORY DATA")
                 THEN parse_story_data(Get(secs, "STORY DATA"))
            ELSE <<>>,
        !.joints =
            IF Has(secs, "JOINT COORDINATES")
            THEN parse_joint_coordinates(Get(secs, "JOINT COORDINATES"))
            ELSE IF Has(secs, "POINT COORDINATES")
                 THEN parse_joint_coordinates(Get(secs, "POINT COORDINATES"))
            ELSE <<>>,
        !.frames =
            IF Has(secs, "FRAME OBJECTS")
            THEN parse_frame_objects(Get(secs, "FRAME OBJECTS"))
            ELSE IF Has(secs, "LINE CONNECTIVITIES")
                 THEN parse_frame_objects(Get(secs, "LINE CONNECTIVITIES"))
            ELSE <<>>,
        !.raw_sections = secs]

-----------------------------------------------------------------------------
(* The files parse_et_file is run on, as the dicts their text is split     *)
(* into, and the pipeline from the parse on.                               *)

\* bounds
MaxStories == 3       \* story lines of a block

StoryNames == {"S1", "S2", "S10"}

\* the story lines of one name: HEIGHT, height, ELEV or neither
StoryLinesOf(name) ==
    { <<W("STORY"), Q(name), W("HEIGHT"), W(h)>> : h \in {"0", "120", "-10", ".5", "1e"} }
    \cup { <<W("STORY"), Q(name), W("height"), W("144")>>,
           <<W("STORY"), Q(name), W("ELEV"), W("120")>>,
           <<W("STORY"), Q(name)>> }

\* the lists of distinct names of up to MaxStories stories, top to bottom
StoryOrders ==
    { o \in UNION { [1..n -> StoryNames] : n \in 1..MaxStories } :
        \A i, j \in DOMAIN o : i # j => o[i] # o[j] }

StoryBlocks ==
    UNION { { b \in [DOMAIN o -> UNION { StoryLinesOf(n) : n \in StoryNames }] :
                \A i \in DOMAIN o : b[i] \in StoryLinesOf(o[i]) } : o \in StoryOrders }

Block(name, lines) == [k |-> name, v |-> lines]

\* one file with a story block, unchanged between the snapshots
FamStoryFiles ==
    { [old |-> (<<Block("STORY DATA", b)>>),
       new |-> (<<Block("STORY DATA", b)>>)] : b \in StoryBlocks }

\* the lines of the blocks that have two spellings
TwoStories == << <<W("STORY"), Q("S2"), W("ELEV"), W("120")>>,
                 <<W("STORY"), Q("S1"), W("ELEV"), W("0")>> >>
OneStory == << <<W("STORY"), Q("S1"), W("ELEV"), W("0")>> >>
TwoJoints == << <<W("J1"), W("0"), W("0"), W("0")>>,
                <<W("J2"), W("0"), W("0"), W("120")>> >>
OneJoint == << <<Q("J1"), W("0"), W("0"), W("0")>> >>
PointLine == << <<W("POINT"), Q("1"), W("0"), W("120")>> >>
TwoFrames == << <<W("F1"), W("J1"), W("J2"), W("W10X10")>>,
                <<W("line"), Q("C1"), W("COLUMN"), Q("J1"), Q("J2"), W("1")>> >>
OneFrame == << <<W("F1"), W("J1"), W("J2")>> >>

\* the blocks of a file under one spelling or under both
SpellingOpts(first, second, one, two) ==
    { <<Block(first, two)>>, <<Block(second, two)>>,
      <<Block(first, one), Block(second, two)>>,
      <<Block(first, two), Block(second, one)>>,
      <<Block(second, two), Block(first, one)>>,
      <<Block(first, <<>>), Block(second, two)>> }

SynonymFiles ==
    { s \o j \o f :
        s \in SpellingOpts("STORIES - IN SEQUENCE FROM TOP", "STORY DATA",
                           OneStory, TwoStories),
        j \in SpellingOpts("JOINT COORDINATES", "POINT COORDINATES",
                           OneJoint, TwoJoints)
              \cup { <<Block("POINT COORDINATES", PointLine)>> },
        f \in SpellingOpts("FRAME OBJECTS", "LINE CONNECTIVITIES",
                           OneFrame, TwoFrames) }

FamSynonyms == { [old |-> f, new |-> f] : f \in SynonymFiles }

\* files that differ in the lines of a typed or an untyped block
EditedFiles ==
    { (<<Block("JOINT COORDINATES", j), Block("STORY DATA", TwoStories)>> \o c) :
        j \in { TwoJoints,
                << TwoJoints[1], <<W("J2"), W("0"), W("0"), W("144")>> >>,
                << TwoJoints[2], TwoJoints[1] >>,
                << TwoJoints[1], TwoJoints[2], TwoJoints[1] >>,
                << TwoJoints[1] >> },
        c \in { <<>>, <<Block("CONTROLS", << <<W("UNITS"), Q("KIP")>> >>)>>,
                <<Block("CONTROLS", << <<W("UNITS"), Q("N")>> >>)>> } }

FamEdits == { [old |-> f, new |-> g] : f \in EditedFiles, g \in EditedFiles }

ParseFamilies == { FamStoryFiles, FamSynonyms, FamEdits }

ParseInit ==
    /\ \E fam \in ParseFamilies : blocks \in fam
    /\ pc = "segmented"
    /\ PipeIdle
    /\ SegIdle
    /\ GeoIdle
    /\ WatchIdle

\* old_model = parse_et_file(old_path)
ParseOld ==
    /\ pc = "segmented"
    /\ old' = parse_et_file(blocks.old)
    /\ pc' = "old_parsed"
    /\ UNCHANGED <<new, tagCount, raw, agg>>
    /\ UNCHANGED <<segVars, geoVars, parseVars, watchVars>>

\* new_model = parse_et_file(new_path)
ParseNew ==
    /\ pc = "old_parsed"
    /\ new' = parse_et_file(blocks.new)
    /\ pc' = "parsed"
    /\ UNCHANGED <<old, tagCount, raw, agg>>
    /\ UNCHANGED <<segVars, geoVars, parseVars, watchVars>>

ParseNext == ParseOld \/ ParseNew \/ TagOld \/ TagNew \/ RetagOld \/ RetagNew
             \/ Diff \/ Aggregate

ParseSpec == ParseInit /\ [][ParseNext]_vars

-----------------------------------------------------------------------------
(* Properties of parse_et_file *)

\* the blocks with two spellings: <<attribute, first spelling, second spelling>>
Synonyms ==
    { <<"stories", "STORIES - IN SEQUENCE FROM TOP", "STORY DATA">>,
      <<"joints", "JOINT COORDINATES", "POINT COORDINATES">>,
      <<"frames", "FRAME OBJECTS", "LINE CONNECTIVITIES">> }

\* the collection the typed parser of an attribute builds from the lines of a block
CollectionOf(attr, lines) ==
    CASE attr = "stories" -> parse_story_data(lines)
      [] attr = "joints" -> parse_joint_coordinates(lines)
      [] attr = "frames" -> parse_frame_objects(lines)

\* the blocks of a file under the spellings of syn that no other of them exceeds
\* in lines
Richest(secs, syn) ==
    LET present == { n \in {syn[2], syn[3]} : Has(secs, n) }
    IN { n \in present : \A m \in present : Len(Get(secs, m)) <= Len(Get(secs, n)) }

\* C25: when a file holds a block under both spellings the collection is built
\* from the richer of the two, and from the only one when it holds one.
C25_RicherSpellingUsed ==
    pc = "old_parsed" =>
        \A syn \in Synonyms :
            Richest(blocks.old, syn) # {} =>
                \E n \in Richest(blocks.old, syn) :
                    old[syn[1]] = CollectionOf(syn[1], Get(blocks.old, n))

\* what the selection does: the first spelling is used whenever the file holds
\* it, the second otherwise
FirstSpellingUsed ==
    pc = "old_parsed" =>
        \A syn \in Synonyms :
            old[syn[1]] =
                IF Has(blocks.old, syn[2])
                THEN CollectionOf(syn[1], Get(blocks.old, syn[2]))
                ELSE IF Has(blocks.old, syn[3])
                     THEN CollectionOf(syn[1], Get(blocks.old, syn[3]))
                ELSE <<>>

\* the name of a story line and the elevation parse_story_data gave it
NameOn(line) == extract_quoted_string(line).str
ElevationIn(stories, line) == Get(stories, NameOn(line)).elevation

\* every line of the block gives its story a HEIGHT that is a positive number
PositiveHeights(lines) ==
    \A i \in DOMAIN lines :
        /\ Len(lines[i]) = 4 /\ Upper(lines[i][3].s) = "HEIGHT"
        /\ float(lines[i][4].s) # ValueError
        /\ FLt(Num(0), float(lines[i][4].s))

\* a story listed above another has the strictly greater elevation
StrictlyOrdered(stories, lines) ==
    \A i, j \in DOMAIN lines :
        i < j => FLt(ElevationIn(stories, lines[j]), ElevationIn(stories, lines[i]))

\* C26: in a story block whose elevations are rebuilt from HEIGHT values, a
\* story listed above another gets a strictly greater elevation, so no two
\* stories get the same one.
C26_HeightsOrderStories ==
    (pc = "old_parsed" /\ Has(blocks.old, "STORY DATA")) =>
        LET lines == Get(blocks.old, "STORY DATA")
        IN PositiveHeights(lines) => StrictlyOrdered(old.stories, lines)

\* what holds: the order is strict when every height is moreover written the
\* way extract_numeric_value reads a number, with a leading digit
HeightsReadOrderStories ==
    (pc = "old_parsed" /\ Has(blocks.old, "STORY DATA")) =>
        LET lines == Get(blocks.old, "STORY DATA")
        IN (PositiveHeights(lines)
            /\ \A i \in DOMAIN lines : lines[i][4].s \in NumberPattern)
           => StrictlyOrdered(old.stories, lines)

\* the block names parse_et_file hands to a typed parser
TypedBlocks ==
    { "PROGRAM INFORMATION", "STORIES - IN SEQUENCE FROM TOP", "STORY DATA", "GRIDS",
      "JOINT COORDINATES", "POINT COORDINATES", "FRAME OBJECTS", "LINE CONNECTIVITIES",
      "MATERIAL PROPERTIES", "FRAME SECTIONS", "LOAD PATTERNS", "LOAD CASES",
      "LOAD COMBINATIONS", "LINE ASSIGNS", "AREA ASSIGNS" }

\* the typed blocks of both files in which a line changed: the raw diff compares
\* the blocks as sets of lines
EditedTypedBlocks ==
    { key \in Keys(blocks.old) \cap Keys(blocks.new) \cap TypedBlocks :
        SeqToSet(Get(blocks.old, key)) # SeqToSet(Get(blocks.new, key)) }

\* the raw_section Modified records of a block, by position
RawModifiedAt(key) ==
    { i \in DOMAIN raw.modified :
        raw.modified[i].object_type = "raw_section" /\ raw.modified[i].key = key }

\* the entries of other_changes for a changed block, by position
OtherChangesAt(key) ==
    { i \in DOMAIN agg.other_changes :
        /\ agg.other_changes[i].type \in {"raw_section_change", "section_assignment_change"}
        /\ agg.other_changes[i].section_name = key }

-----------------------------------------------------------------------------
(* The pipeline on snapshots whose story and section names contain ':'.     *)

\* LINE ASSIGNS records of two columns, one on story L1 and one on story L1:W10
KeyAssignments(section_1, section_2) ==
    <<FrameAssignment("F1", "L1", section_1), FrameAssignment("F2", "L1:W10", section_2)>>

FamKeys ==
    { [EtabsModel EXCEPT
         !.joints = ByName(<<J1, J2>>),
         !.frames = ByName(<<FrameObject("F1", "J1", "J2", "W10X10"),
                             FrameObject("F2", "J1", "J2", "W10X10")>>),
         !.frame_assignments = ByFrameStory(KeyAssignments(section_1, section_2))] :
        section_1 \in {"W10:A", "W10", "X"}, section_2 \in {"A", "W10", "X"} }

KeyInit ==
    /\ old \in FamKeys /\ new \in FamKeys
    /\ pc = "parsed"
    /\ tagCount = [old |-> 0, new |-> 0]
    /\ raw = None
    /\ agg = None
    /\ SegIdle
    /\ GeoIdle
    /\ ParseIdle
    /\ WatchIdle

KeySpec == KeyInit /\ [][Next]_vars

-----------------------------------------------------------------------------
(* Properties of the cluster key *)

\* the (object type, story, old section, new section) of the records that
\* contribute to the section swaps
SwapTuples ==
    { SwapTuple(raw.modified[i]) : i \in DOMAIN raw.modified } \ { [contributes |-> FALSE] }

\* C27: the clusters are one-to-one with the distinct (object type, story, old
\* section, new section) of the swap records, also when a story or section
\* name contains ':': records of two tuples are never in one cluster.
C27_OneClusterPerTuple ==
    pc = "aggregated" =>
        /\ Len(agg.section_swaps) = Cardinality(SwapTuples)
        /\ \A t \in SwapTuples :
              \E c \in DOMAIN agg.section_swaps :
                  /\ ClusterTuple(agg.section_swaps[c]) = t
                  /\ agg.section_swaps[c].count
                        = Cardinality({ i \in DOMAIN raw.modified :
                                          SwapTuple(raw.modified[i]) = t })

-----------------------------------------------------------------------------
(* mcp_server.py: EtabsFileWatcher.  A record of the change log is          *)
(* [file_path |-> path, timestamp |-> time]; file_name and file_size are    *)
(* read by no method of the watcher and left out.                           *)

\* deque(maxlen=100)
maxlen == 100

\* bounds
MaxCalls == 5         \* calls of record_file_change explored from an initial log

Paths == {"a.et", "b.et", "c.et"}

\* deque.append: at maxlen the oldest record is discarded
DequeAppend(q, x) ==
    IF Len(q) < maxlen THEN Append(q, x) ELSE Append(Tail(q), x)

\* the loop of get_last_two_files, list(seen_files.values()): walking the
\* records newest first keeps, for every path, its newest record, in the
\* order in which the walk meets them
SeenFiles(changes) ==
    LET newest == { i \in DOMAIN changes :
                      \A j \in DOMAIN changes :
                          changes[j].file_path = changes[i].file_path => j <= i }
    IN [k \in 1..Cardinality(newest) |->
          changes[CHOOSE i \in newest :
                     Cardinality({ j \in newest : j > i }) = k - 1]]

get_last_two_files(changes) ==
    LET files == SeenFiles(changes)
    IN IF Len(files) >= 2
       THEN [old_file |-> files[Len(files) - 1].file_path,
             new_file |-> files[Len(files)].file_path,
             old_timestamp |-> files[Len(files) - 1].timestamp,
             new_timestamp |-> files[Len(files)].timestamp]
       ELSE IF Len(files) = 1
            THEN [new_file |-> files[1].file_path,
                  new_timestamp |-> files[1].timestamp,
                  message |-> "Only one file detected so far"]
       ELSE None

\* a watcher after n records of one path
LogOf(path, n) == [i \in 1..n |-> [file_path |-> path, timestamp |-> i]]

\* a new watcher, or one whose log is a few records short of maxlen
WatchInit ==
    /\ \E n \in {0, maxlen - 3} :
          /\ file_changes = LogOf("a.et", n)
          /\ recorded = [i \in 1..n |-> "a.et"]
          /\ clock = n
          /\ last_file = IF n = 0 THEN None ELSE Str("a.et")
    /\ last_two = None
    /\ pc = "watching"
    /\ PipeIdle
    /\ SegIdle
    /\ GeoIdle
    /\ ParseIdle

\* the calls made from the initial log on
Calls == Len(recorded) - (IF Len(recorded) >= maxlen - 3 THEN maxlen - 3 ELSE 0)

RecordFileChange(file_path) ==
    /\ Calls < MaxCalls
    /\ file_changes' = DequeAppend(file_changes,
                                   [file_path |-> file_path, timestamp |-> clock + 1])
    /\ clock' = clock + 1
    /\ last_file' = Str(file_path)
    /\ recorded' = Append(recorded, file_path)
    /\ last_two' = None
    /\ pc' = "watching"
    /\ UNCHANGED <<pipeVars, segVars, geoVars, parseVars>>

GetLastTwoFiles ==
    /\ last_two' = get_last_two_files(file_changes)
    /\ pc' = "returned"
    /\ UNCHANGED <<file_changes, last_file, clock, recorded>>
    /\ UNCHANGED <<pipeVars, segVars, geoVars, parseVars>>

WatchNext == (\E file_path \in Paths : RecordFileChange(file_path)) \/ GetLastTwoFiles

WatchSpec == WatchInit /\ [][WatchNext]_vars

-----------------------------------------------------------------------------
(* Properties of EtabsFileWatcher *)

\* the place of the last record of a path among the calls
LatestCall(path) ==
    CHOOSE i \in DOMAIN recorded :
        recorded[i] = path /\ \A j \in DOMAIN recorded : recorded[j] = path => j <= i

\* the distinct paths recorded so far
RecordedPaths == SeqToSet(recorded)

\* C30: after the calls of record_file_change, get_last_two_files returns as
\* new_file the path recorded last and as old_file the other path whose last
\* record is the most recent, when two or more distinct paths were recorded;
\* new_file only when one was; None when none was.  The change log never
\* holds more than 100 records.
C30_LastTwoFiles ==
    /\ Len(file_changes) <= 100
    /\ pc = "returned" =>
          IF Cardinality(RecordedPaths) >= 2
          THEN /\ last_two # None
               /\ "old_file" \in DOMAIN last_two
               /\ last_two.new_file = recorded[Len(recorded)]
               /\ last_two.old_file # last_two.new_file
               /\ last_two.old_file \in RecordedPaths
               /\ \A p \in RecordedPaths \ {last_two.new_file} :
                     LatestCall(p) <= LatestCall(last_two.old_file)
          ELSE IF Cardinality(RecordedPaths) = 1
               THEN /\ last_two # None
                    /\ "old_file" \notin DOMAIN last_two
                    /\ last_two.new_file \in RecordedPaths
          ELSE last_two = None

\* what holds: the log is bounded, one path gives new_file only, no path gives
\* None, and with two or more paths in the log new_file is the path whose
\* last record is the oldest and old_file the one whose is the second oldest
LastTwoFilesOldest ==
    /\ Len(file_changes) <= maxlen
    /\ pc = "returned" =>
          LET logged == { file_changes[i].file_path : i \in DOMAIN file_changes }
          IN IF Cardinality(logged) >= 2
             THEN /\ last_two.new_file \in logged /\ last_two.old_file \in logged
                  /\ last_two.old_file # last_two.new_file
                  /\ \A p \in logged : LatestCall(last_two.new_file) <= LatestCall(p)
                  /\ \A p \in logged \ {last_two.new_file} :
                        LatestCall(last_two.old_file) <= LatestCall(p)
             ELSE IF Cardinality(logged) = 1
                  THEN /\ "old_file" \notin DOMAIN last_two
                       /\ last_two.new_file \in logged
             ELSE last_two = None

=============================================================================
